---- MODULE Spec2Model ----
(***************************************************************************)
(* Model of the lifecycle and HTTP core of the backend framework:          *)
(*   ModuleManager      src/src/core/module-manager.ts                     *)
(*   ServiceManager     src/src/config/config-provider.ts                  *)
(*   MiddlewareManager  src/src/config/config-provider.ts                  *)
(*   RouteManager       src/unnamed/part_004                               *)
(*   HttpServer         src/src/modules/api/api-routes-module.ts           *)
(*                                                                         *)
(* A JavaScript Map iterates in insertion order, so the two maps of the    *)
(* manager are sequences of entries.  An async method runs synchronously   *)
(* up to its first await; every await is a suspension point at which other *)
(* calls may run, so each call is a record with a program position.        *)
(***************************************************************************)
EXTENDS Integers, Sequences, FiniteSets, TLC

\* ------------------------------------------------------------------ bounds
NamePool == <<"a", "b", "c">>

Names == {NamePool[i] : i \in DOMAIN NamePool}

MaxDeps == 2

MaxInFlight == 2

Slots == 1..MaxInFlight

\* entries the three registries hold together when exercised side by side
MaxEntries == 3

\* priorities a middleware is registered with
Priorities == {10, 30, 50}

VARIABLES
  modules,          \* Map<string, IModule>: entries [name, enabled] in insertion order
  dependencyGraph,  \* Map<string, Set<string>>: entries [name, deps] in insertion order
  isInitialised,    \* private isInitialised
  thrown,           \* exception of the last register()/unregister() call
  calls,            \* the initialise()/shutdown() calls, one record per slot
  readyOrder,       \* initializers invoked by the initialise() that made the manager ready
  services,         \* ServiceManager.services: names in insertion order
  middlewares,      \* MiddlewareManager.middlewares: entries [name, priority]
  mwRegistered,     \* names of the registered middlewares in the order of their register() calls
  execution,        \* what the last MiddlewareManager.execute() did
  routeTable,       \* RouteManager.routes: entries [key, method, path] in insertion order
  routeGroups,      \* RouteManager.routeGroups: prefixes in insertion order
  httpRoutes,       \* HttpServer.routes: entries [key, handler] in insertion order
  httpMiddlewares,  \* HttpServer.middlewares: entries [name, handler]
  config,           \* HttpServer.config.cors
  request,          \* the HTTP request being served, or the last one served
  serviceIsInitialised,  \* ServiceManager.isInitialised
  serviceCalls,     \* the ServiceManager.initialise()/shutdown() calls, one record per slot
  server,           \* HttpServer.server: the listener it refers to, 0 for undefined
  serverIsRunning,  \* HttpServer.isRunning
  listeners,        \* the net servers createServer() has made, each with its state
  serverCalls,      \* the HttpServer.start()/stop() calls, one record per slot
  isRunning,        \* Application.isRunning
  appCalls,         \* the Application.initialise()/shutdown() calls, one record per slot
  signalHandlers,   \* setupGracefulShutdown() has installed the signal handlers
  exitCode,         \* the code process.exit() was called with, -1 while the process runs
  live,             \* modules and services initialised and not told to shut down since
  rateOptions,      \* RateLimitMiddleware.options, once the middleware is constructed
  rateRequests,     \* RateLimitMiddleware.requests: client id -> RequestCount, if any
  now,              \* Date.now()
  rateLog,          \* the execute() calls made: client id, time and what the call did
  emitterListeners, \* EventEmitter.listeners: event -> Set of listeners in insertion order
  onceWrappers,     \* the number of onceWrapper closures once() has made
  onceInvoked,      \* the onceWrapper closures that called their listener, one entry per call
  emitted           \* what the last emit() did

moduleVars == <<modules, dependencyGraph, isInitialised, calls, readyOrder>>

serviceVars == <<services, serviceIsInitialised, serviceCalls>>

middlewareVars == <<middlewares, mwRegistered, execution>>

routeVars == <<routeTable, routeGroups>>

httpVars == <<httpRoutes, httpMiddlewares, config, request>>

listenVars == <<server, serverIsRunning, listeners, serverCalls>>

appVars == <<isRunning, appCalls, signalHandlers, exitCode, live>>

rateVars == <<rateOptions, rateRequests, now, rateLog>>

emitterVars == <<emitterListeners, onceWrappers, onceInvoked, emitted>>

vars == <<moduleVars, thrown, serviceVars, middlewareVars, routeVars, httpVars, listenVars, appVars, rateVars, emitterVars>>

\* what the methods of each class leave alone: the state of the other classes
OutsideModules == <<serviceVars, middlewareVars, routeVars, httpVars, listenVars, appVars, rateVars, emitterVars>>

OutsideServices == <<moduleVars, middlewareVars, routeVars, httpVars, listenVars, appVars, rateVars, emitterVars>>

OutsideMiddlewares == <<moduleVars, serviceVars, routeVars, httpVars, listenVars, appVars, rateVars, emitterVars>>

OutsideRoutes == <<moduleVars, serviceVars, middlewareVars, httpVars, listenVars, appVars, rateVars, emitterVars>>

OutsideHttp == <<moduleVars, serviceVars, middlewareVars, routeVars, listenVars, appVars, rateVars, emitterVars>>

OutsideListen == <<moduleVars, thrown, serviceVars, middlewareVars, routeVars, httpVars, appVars, rateVars, emitterVars>>

OutsideApp == <<middlewareVars, routeVars, httpVars, listenVars, rateVars, emitterVars>>

OutsideRate == <<moduleVars, thrown, serviceVars, middlewareVars, routeVars, httpVars, listenVars, appVars, emitterVars>>

OutsideEmitter == <<moduleVars, thrown, serviceVars, middlewareVars, routeVars, httpVars, listenVars, appVars, rateVars>>

\* ------------------------------------------------------------ sequences
Range(s) == {s[i] : i \in DOMAIN s}

Reverse(s) == [i \in 1..Len(s) |-> s[Len(s) + 1 - i]]

RECURSIVE SeqsUpTo(_, _)
SeqsUpTo(S, n) ==
  IF n = 0 THEN {<<>>}
  ELSE LET shorter == SeqsUpTo(S, n - 1)
       IN shorter \cup {Append(s, x) : s \in shorter, x \in S}

\* new Set(array): first occurrences, in order
RECURSIVE NewSet(_)
NewSet(arr) ==
  IF arr = <<>> THEN <<>>
  ELSE LET front == NewSet(SubSeq(arr, 1, Len(arr) - 1))
           last  == arr[Len(arr)]
       IN IF last \in Range(front) THEN front ELSE Append(front, last)

DepArrays == SeqsUpTo(Names, MaxDeps)

\* ------------------------------------------------------------------ maps
Keys(map) == [i \in 1..Len(map) |-> map[i].name]

MapHas(map, n) == \E i \in DOMAIN map : map[i].name = n

MapDelete(map, n) == SelectSeq(map, LAMBDA e : e.name # n)

\* a lookup that never finds the entry, which the || new Set() fallback hides
GraphGetNeverFound(g, n) == <<>>

\* this.dependencyGraph.get(name) || new Set()
GraphGet(g, n) ==
  IF MapHas(g, n) THEN (CHOOSE e \in Range(g) : e.name = n).deps ELSE <<>>

ModuleEnabled(ms, n) == \E e \in Range(ms) : e.name = n /\ e.enabled

\* ---------------------------------------------------------------- errors
NoError == [kind |-> "none", module |-> "", dep |-> "", list |-> <<>>]

Err(k, m, d, l) == [kind |-> k, module |-> m, dep |-> d, list |-> l]


\* ------------------------------------------------- validateDependencies
Min(S) == CHOOSE x \in S : \A y \in S : x <= y

\* a validation that looks at the first dependency of each module only
FirstMissingFirstDepOnly(ms, g) ==
  LET I == {i \in DOMAIN g : g[i].deps # <<>> /\ ~MapHas(ms, g[i].deps[1])}
  IN IF I = {} THEN NoError
     ELSE Err("missing", g[Min(I)].name, g[Min(I)].deps[1], <<>>)

\* first (module, dependency) pair, in map order, whose dependency is not registered
FirstMissing(ms, g) ==
  LET bad(i) == {j \in DOMAIN g[i].deps : ~MapHas(ms, g[i].deps[j])}
      I      == {i \in DOMAIN g : bad(i) # {}}
  IN IF I = {} THEN NoError
     ELSE LET i == Min(I)
              j == Min(bad(i))
          IN Err("missing", g[i].name, g[i].deps[j], <<>>)

\* -------------------------------------------- detectCircularDependencies
\* The traversal state is [visited, stack, ret, thrown]: the two sets of the
\* closure, the value returned by the last visit() and the module named by
\* the error once one is thrown ("" until then).
RECURSIVE DetectVisit(_, _, _)
RECURSIVE DetectDeps(_, _, _, _, _)
DetectDeps(g, moduleName, ds, i, st) ==
  IF i > Len(ds) THEN st
  ELSE LET s1 == DetectVisit(g, ds[i], st)
       IN IF s1.thrown # "" THEN s1
          ELSE IF s1.ret THEN [s1 EXCEPT !.thrown = moduleName]
          ELSE DetectDeps(g, moduleName, ds, i + 1, s1)

DetectVisit(g, moduleName, st) ==
  IF moduleName \in st.stack THEN [st EXCEPT !.ret = TRUE]
  ELSE IF moduleName \in st.visited THEN [st EXCEPT !.ret = FALSE]
  ELSE LET s1 == [st EXCEPT !.visited = @ \cup {moduleName},
                            !.stack = @ \cup {moduleName}]
           s2 == DetectDeps(g, moduleName, GraphGet(g, moduleName), 1, s1)
       IN IF s2.thrown # "" THEN s2
          ELSE [s2 EXCEPT !.stack = @ \ {moduleName}, !.ret = FALSE]

RECURSIVE DetectLoop(_, _, _, _)
DetectLoop(g, keys, i, st) ==
  IF i > Len(keys) \/ st.thrown # "" THEN st
  ELSE IF keys[i] \in st.visited THEN DetectLoop(g, keys, i + 1, st)
  ELSE DetectLoop(g, keys, i + 1, DetectVisit(g, keys[i], st))

DetectCircularDependencies(ms, g) ==
  LET st == DetectLoop(g, Keys(ms), 1,
                       [visited |-> {}, stack |-> {}, ret |-> FALSE, thrown |-> ""])
  IN IF st.thrown = "" THEN NoError
     ELSE Err("circular", st.thrown, "", <<>>)

ValidateDependencies(ms, g) ==
  LET missing == FirstMissing(ms, g)
  IN IF missing.kind # "none" THEN missing
     ELSE DetectCircularDependencies(ms, g)

\* ----------------------------------------------- getInitialisationOrder
\* The traversal state is [sorted, visited, visiting, thrown].
RECURSIVE OrderVisit(_, _, _)
RECURSIVE OrderDeps(_, _, _, _)
OrderDeps(g, ds, i, st) ==
  IF i > Len(ds) \/ st.thrown # "" THEN st
  ELSE OrderDeps(g, ds, i + 1, OrderVisit(g, ds[i], st))

OrderVisit(g, moduleName, st) ==
  IF moduleName \in st.visiting THEN [st EXCEPT !.thrown = moduleName]
  ELSE IF moduleName \in st.visited THEN st
  ELSE LET s1 == [st EXCEPT !.visiting = @ \cup {moduleName}]
           s2 == OrderDeps(g, GraphGet(g, moduleName), 1, s1)
       IN IF s2.thrown # "" THEN s2
          ELSE [s2 EXCEPT !.visiting = @ \ {moduleName},
                          !.visited = @ \cup {moduleName},
                          !.sorted = Append(@, moduleName)]

RECURSIVE OrderLoop(_, _, _, _)
OrderLoop(g, keys, i, st) ==
  IF i > Len(keys) \/ st.thrown # "" THEN st
  ELSE IF keys[i] \in st.visited THEN OrderLoop(g, keys, i + 1, st)
  ELSE OrderLoop(g, keys, i + 1, OrderVisit(g, keys[i], st))

\* result [sorted, error]
GetInitialisationOrder(ms, g) ==
  LET st == OrderLoop(g, Keys(ms), 1,
                      [sorted |-> <<>>, visited |-> {}, visiting |-> {}, thrown |-> ""])
  IN [sorted |-> st.sorted,
      error  |-> IF st.thrown = "" THEN NoError
                 ELSE Err("circular", st.thrown, "", <<>>)]

\* --------------------------------------------------------- findDependents
FindDependents(g, moduleName) ==
  Keys(SelectSeq(g, LAMBDA e : moduleName \in Range(e.deps)))

\* ---------------------------------------------------------------- calls
Idle ==
  [op |-> "none", pc |-> "idle", order |-> <<>>, idx |-> 0,
   invoked |-> <<>>, failed |-> {}, error |-> NoError,
   wasInitialised |-> FALSE, overlapped |-> {}]

Awaiting(c) == calls[c].pc = "awaiting"

Quiet == \A c \in Slots : ~Awaiting(c)

\* what the calls suspended at an await are doing
Suspended == {calls[c].op : c \in {d \in Slots : Awaiting(d)}}

\* ServerConfig.cors as the server is constructed: no origin, no credentials
DefaultConfig == [origin |-> <<>>, credentials |-> FALSE]

\* request.body: undefined before parseRequest has set it, then a string (its
\* text) or an object (its members)
NoBody == [kind |-> "undefined", text |-> <<>>, members |-> <<>>]

StringBody(text) == [kind |-> "string", text |-> text, members |-> <<>>]

ObjectBody(members) == [kind |-> "object", text |-> <<>>, members |-> members]

\* a ServerResponse on which nothing has been set: Node's statusCode is 200.
\* sent is what went to the client when end() was first called.
NothingSent == [status |-> 0, headers |-> {}, body |-> <<>>]

NewResponse ==
  [statusCode |-> 200, headers |-> {}, headersSent |-> FALSE, sent |-> NothingSent]

\* The request of one connection: what came in (method, pathname, contentType,
\* received), the HttpRequest built from it (body, params), its ServerResponse
\* (res), the middlewares started so far (middlewareIndex), the exception in
\* flight (error), and a record of what ran: the middlewares and handler
\* started and the next() calls made (invoked), whether executeRoute was
\* reached (routed), where exceptions were raised (raised) and whether the
\* listener's promise rejected (unhandled).
NoRequest ==
  [phase |-> "none", method |-> <<>>, pathname |-> <<>>, contentType |-> <<>>,
   received |-> <<>>, body |-> NoBody, params |-> <<>>, res |-> NewResponse,
   middlewareIndex |-> 0, error |-> NoError, invoked |-> <<>>, routed |-> FALSE,
   raised |-> {}, unhandled |-> FALSE]

\* A call of ServiceManager.initialise() or shutdown(): the hooks it invoked
\* (started, in Map order), those whose promise has not settled (pending),
\* those that resolved (completed) and those that rejected (failed).
NoServiceCall ==
  [op |-> "none", pc |-> "idle", started |-> <<>>, pending |-> {},
   completed |-> {}, failed |-> {}, error |-> NoError, wasInitialised |-> FALSE]

\* A call of HttpServer.start() or stop() and the listener it waits for
NoServerCall == [op |-> "none", pc |-> "idle", listener |-> 0, error |-> NoError]

\* A call of Application.initialise() or shutdown(): the manager it is awaiting
\* (pc) and whether a signal handler made it (signal)
NoAppCall == [op |-> "none", pc |-> "idle", signal |-> FALSE, error |-> NoError]

\* client ids getClientId() returns
Clients == {"c1", "c2"}

\* no RateLimitMiddleware constructed yet
NoOptions == [constructed |-> FALSE, max |-> 0, windowMs |-> 0]

\* this.requests.get(clientId) is undefined
NoCount == [has |-> FALSE, count |-> 0, windowStart |-> 0]

\* event names, and the listener functions, named by what they do when called
Events == {"e", "f"}

ListenerFns == {"returns", "throws", "emits"}

\* this.listeners.get(event) is undefined
NoListeners == [has |-> FALSE, set |-> <<>>]

NothingEmitted ==
  [done |-> FALSE, event |-> "", before |-> <<>>, invoked |-> <<>>, error |-> NoError]

\* no execute() has run on the current middleware list
NoExecution == [done |-> FALSE, trace |-> <<>>, error |-> NoError]

Init ==
  /\ modules = <<>>
  /\ dependencyGraph = <<>>
  /\ isInitialised = FALSE
  /\ thrown = NoError
  /\ calls = [c \in Slots |-> Idle]
  /\ readyOrder = [known |-> FALSE, seq |-> <<>>]
  /\ services = <<>>
  /\ middlewares = <<>>
  /\ mwRegistered = <<>>
  /\ execution = NoExecution
  /\ routeTable = <<>>
  /\ routeGroups = <<>>
  /\ httpRoutes = <<>>
  /\ httpMiddlewares = <<>>
  /\ config = DefaultConfig
  /\ request = NoRequest
  /\ serviceIsInitialised = FALSE
  /\ serviceCalls = [c \in Slots |-> NoServiceCall]
  /\ server = 0
  /\ serverIsRunning = FALSE
  /\ listeners = <<>>
  /\ serverCalls = [c \in Slots |-> NoServerCall]
  /\ isRunning = FALSE
  /\ appCalls = [c \in Slots |-> NoAppCall]
  /\ signalHandlers = FALSE
  /\ exitCode = -1
  /\ live = {}
  /\ rateOptions = NoOptions
  /\ rateRequests = [c \in Clients |-> NoCount]
  /\ now = 0
  /\ rateLog = <<>>
  /\ emitterListeners = [event \in Events |-> NoListeners]
  /\ onceWrappers = 0
  /\ onceInvoked = <<>>
  /\ emitted = NothingEmitted

\* ghost bookkeeping: a change of the registry or of a module's enabled flag
\* ends what the finished calls and the recorded start-up order describe
Forget == [c \in Slots |-> IF Awaiting(c) THEN calls[c] ELSE Idle]

Unknown == [known |-> FALSE, seq |-> <<>>]

Hook(h, m) == [hook |-> h, module |-> m]

\* --------------------------------------------------------------- register
Register(name, deps, en) ==
  /\ Quiet
  /\ IF MapHas(modules, name)
       THEN /\ thrown' = Err("duplicate", name, "", <<>>)
            /\ UNCHANGED <<modules, dependencyGraph, calls, readyOrder>>
       ELSE /\ modules' = Append(modules, [name |-> name, enabled |-> en])
            /\ dependencyGraph' =
                 Append(dependencyGraph, [name |-> name, deps |-> NewSet(deps)])
            /\ thrown' = NoError
            /\ calls' = Forget
            /\ readyOrder' = Unknown
  /\ UNCHANGED <<isInitialised, OutsideModules>>

\* ------------------------------------------------------------- unregister
Unregister(moduleName) ==
  /\ Quiet
  /\ LET dependents == FindDependents(dependencyGraph, moduleName)
     IN IF ~MapHas(modules, moduleName)
          THEN /\ thrown' = Err("notfound", moduleName, "", <<>>)
               /\ UNCHANGED <<modules, dependencyGraph, calls, readyOrder>>
        ELSE IF Len(dependents) > 0
          THEN /\ thrown' = Err("dependents", moduleName, "", dependents)
               /\ UNCHANGED <<modules, dependencyGraph, calls, readyOrder>>
        ELSE /\ modules' = MapDelete(modules, moduleName)
             /\ dependencyGraph' = MapDelete(dependencyGraph, moduleName)
             /\ thrown' = NoError
             /\ calls' = Forget
             /\ readyOrder' = Unknown
  /\ UNCHANGED <<isInitialised, OutsideModules>>

\* ------------------------------------------- IModule.enable() / disable()
SetEnabled(name, en) ==
  /\ Quiet
  /\ \E i \in DOMAIN modules :
       /\ modules[i].name = name
       /\ modules[i].enabled # en
       /\ modules' = [modules EXCEPT ![i].enabled = en]
  /\ calls' = Forget
  /\ readyOrder' = Unknown
  /\ thrown' = NoError
  /\ UNCHANGED <<dependencyGraph, isInitialised, OutsideModules>>

Enable(name) == SetEnabled(name, TRUE)

Disable(name) == SetEnabled(name, FALSE)

\* ------------------------------------------------------------- initialise
\* position of the next module of order, from i on, that the loop initialises
\* (module?.isEnabled()); 0 when the loop runs to its end
NextToInitialise(ms, order, i) ==
  LET I == {j \in i..Len(order) : ModuleEnabled(ms, order[j])}
  IN IF I = {} THEN 0 ELSE Min(I)

\* the for-loop of initialise() from position i, up to the next await or the end
InitialiseLoop(c, rec, i) ==
  LET j == NextToInitialise(modules, rec.order, i)
  IN IF j = 0
       THEN /\ isInitialised' = TRUE
            /\ calls' = [calls EXCEPT ![c] =
                 [rec EXCEPT !.pc = "resolved", !.idx = Len(rec.order) + 1]]
            /\ readyOrder' = [known |-> TRUE, seq |-> rec.invoked]
       ELSE /\ calls' = [calls EXCEPT ![c] =
                 [rec EXCEPT !.pc = "awaiting", !.idx = j,
                             !.invoked = Append(@, Hook("initialise", rec.order[j]))]]
            /\ UNCHANGED <<isInitialised, readyOrder>>

Reject(c, rec, e) ==
  calls' = [calls EXCEPT ![c] = [rec EXCEPT !.pc = "rejected", !.error = e]]

\* an initialise() without its guard
AlreadyInitialisedNever == FALSE

\* if (this.isInitialised) { warn; return; }
AlreadyInitialised == isInitialised

InitialiseCall(c) ==
  /\ ~Awaiting(c)
  /\ LET rec == [Idle EXCEPT !.op = "initialise",
                             !.wasInitialised = isInitialised,
                             !.overlapped = Suspended]
         invalid == ValidateDependencies(modules, dependencyGraph)
         initOrder == GetInitialisationOrder(modules, dependencyGraph)
     IN IF AlreadyInitialised
          THEN /\ calls' = [calls EXCEPT ![c] = [rec EXCEPT !.pc = "resolved"]]
               /\ UNCHANGED <<isInitialised, readyOrder>>
        ELSE IF invalid.kind # "none"
          THEN Reject(c, rec, invalid) /\ UNCHANGED <<isInitialised, readyOrder>>
        ELSE IF initOrder.error.kind # "none"
          THEN Reject(c, rec, initOrder.error) /\ UNCHANGED <<isInitialised, readyOrder>>
        ELSE InitialiseLoop(c, [rec EXCEPT !.order = initOrder.sorted], 1)
  /\ thrown' = NoError
  /\ UNCHANGED <<modules, dependencyGraph>>

Initialise(c) == InitialiseCall(c) /\ UNCHANGED OutsideModules

\* a catch block that logs and lets the loop go on
InitialiserFailedSwallowed(c, rec, moduleName) ==
  InitialiseLoop(c, rec, rec.idx + 1)

\* catch (error) { log; throw error; } around the awaited module.initialise()
InitialiserFailed(c, rec, moduleName) ==
  /\ Reject(c, rec, Err("initialiser", moduleName, "", <<>>))
  /\ UNCHANGED <<isInitialised, readyOrder>>

\* the awaited module.initialise() settles: resolves (ok) or rejects
InitialiserSettlesCall(c, ok) ==
  /\ Awaiting(c)
  /\ calls[c].op = "initialise"
  /\ LET m == calls[c].order[calls[c].idx]
     IN IF ok
          THEN InitialiseLoop(c, calls[c], calls[c].idx + 1)
          ELSE InitialiserFailed(c, [calls[c] EXCEPT !.failed = @ \cup {m}], m)
  /\ UNCHANGED <<modules, dependencyGraph, thrown>>

InitialiserSettles(c, ok) == InitialiserSettlesCall(c, ok) /\ UNCHANGED OutsideModules

\* --------------------------------------------------------------- shutdown
\* position of the next module of order, from i on, that is registered
\* (if (module)); 0 when the loop runs to its end
NextToShutdown(ms, order, i) ==
  LET I == {j \in i..Len(order) : MapHas(ms, order[j])}
  IN IF I = {} THEN 0 ELSE Min(I)

ShutdownLoop(c, rec, i) ==
  LET j == NextToShutdown(modules, rec.order, i)
  IN IF j = 0
       THEN /\ isInitialised' = FALSE
            /\ calls' = [calls EXCEPT ![c] =
                 [rec EXCEPT !.pc = "resolved", !.idx = Len(rec.order) + 1]]
       ELSE /\ calls' = [calls EXCEPT ![c] =
                 [rec EXCEPT !.pc = "awaiting", !.idx = j,
                             !.invoked = Append(@, Hook("shutdown", rec.order[j]))]]
            /\ UNCHANGED isInitialised

\* if (!this.isInitialised) { warn; return; }
NotInitialised == ~isInitialised

\* a catch block that rethrows
ShutdownHookFailedRethrown(c, rec, moduleName) ==
  /\ Reject(c, rec, Err("hook", moduleName, "", <<>>))
  /\ UNCHANGED isInitialised

\* catch (error) { log; } around the awaited module.shutdown(): the loop goes on
ShutdownHookFailed(c, rec, moduleName) ==
  ShutdownLoop(c, rec, rec.idx + 1)

ShutdownCall(c) ==
  /\ ~Awaiting(c)
  /\ LET rec == [Idle EXCEPT !.op = "shutdown",
                             !.wasInitialised = isInitialised,
                             !.overlapped = Suspended]
         initOrder == GetInitialisationOrder(modules, dependencyGraph)
     IN IF NotInitialised
          THEN /\ calls' = [calls EXCEPT ![c] = [rec EXCEPT !.pc = "resolved"]]
               /\ UNCHANGED isInitialised
        ELSE IF initOrder.error.kind # "none"
          THEN Reject(c, rec, initOrder.error) /\ UNCHANGED isInitialised
        ELSE ShutdownLoop(c, [rec EXCEPT !.order = Reverse(initOrder.sorted)], 1)
  /\ thrown' = NoError
  /\ UNCHANGED <<modules, dependencyGraph, readyOrder>>

Shutdown(c) == ShutdownCall(c) /\ UNCHANGED OutsideModules

\* the awaited module.shutdown() settles: resolves (ok) or rejects (logged)
ShutdownSettlesCall(c, ok) ==
  /\ Awaiting(c)
  /\ calls[c].op = "shutdown"
  /\ LET m == calls[c].order[calls[c].idx]
     IN IF ok
          THEN ShutdownLoop(c, calls[c], calls[c].idx + 1)
          ELSE ShutdownHookFailed(c, [calls[c] EXCEPT !.failed = @ \cup {m}], m)
  /\ UNCHANGED <<modules, dependencyGraph, thrown, readyOrder>>

ShutdownSettles(c, ok) == ShutdownSettlesCall(c, ok) /\ UNCHANGED OutsideModules

\* ------------------------------------------- ServiceManager.register()
ServiceRegister(name) ==
  /\ IF MapHas(services, name)
       THEN /\ thrown' = Err("service-duplicate", name, "", <<>>)
            /\ UNCHANGED services
       ELSE /\ services' = Append(services, [name |-> name])
            /\ thrown' = NoError
  /\ UNCHANGED <<serviceIsInitialised, serviceCalls, OutsideServices>>

\* ----------------------------------------- ServiceManager.unregister()
ServiceUnregister(serviceName) ==
  /\ IF ~MapHas(services, serviceName)
       THEN /\ thrown' = Err("service-notfound", serviceName, "", <<>>)
            /\ UNCHANGED services
       ELSE /\ services' = MapDelete(services, serviceName)
            /\ thrown' = NoError
  /\ UNCHANGED <<serviceIsInitialised, serviceCalls, OutsideServices>>

\* ----------------------------------------- ServiceManager.initialise()
\* a loop that awaits each initializer before it starts the next
InvokeFirst(names) == IF names = <<>> THEN <<>> ELSE <<names[1]>>

\* Array.from(this.services.values()).map(async (service) => ...): each
\* callback runs up to its await, so every hook is invoked before map returns
InvokeAll(names) == names

ServiceResolve(c, rec) ==
  serviceCalls' = [serviceCalls EXCEPT ![c] = [rec EXCEPT !.pc = "resolved"]]

ServiceInitialiseCall(c) ==
  /\ serviceCalls[c].pending = {}
  /\ LET rec == [NoServiceCall EXCEPT !.op = "initialise",
                                      !.wasInitialised = serviceIsInitialised]
         started == InvokeAll(Keys(services))
     IN IF serviceIsInitialised
          THEN ServiceResolve(c, rec) /\ UNCHANGED serviceIsInitialised
        ELSE IF started = <<>>
          THEN ServiceResolve(c, rec) /\ serviceIsInitialised' = TRUE
        ELSE /\ serviceCalls' = [serviceCalls EXCEPT ![c] =
                  [rec EXCEPT !.pc = "awaiting", !.started = started,
                              !.pending = Range(started)]]
             /\ UNCHANGED serviceIsInitialised
  /\ UNCHANGED services

ServiceInitialise(c) ==
  /\ ServiceInitialiseCall(c)
  /\ UNCHANGED <<thrown, OutsideServices>>

\* a service.initialise() settles: resolves (ok) or rejects.  The catch block
\* rethrows, Promise.all rejects with the first rejection and initialise()
\* with it; the hooks still pending settle later, with nothing awaiting them.
ServiceInitialiserSettlesCall(c, name, ok) ==
  /\ serviceCalls[c].op = "initialise"
  /\ name \in serviceCalls[c].pending
  /\ LET rec == [serviceCalls[c] EXCEPT
                   !.pending = @ \ {name},
                   !.completed = IF ok THEN @ \cup {name} ELSE @,
                   !.failed = IF ok THEN @ ELSE @ \cup {name}]
     IN IF rec.pc # "awaiting"
          THEN /\ serviceCalls' = [serviceCalls EXCEPT ![c] = rec]
               /\ UNCHANGED serviceIsInitialised
        ELSE IF ~ok
          THEN /\ serviceCalls' = [serviceCalls EXCEPT ![c] =
                    [rec EXCEPT !.pc = "rejected",
                                !.error = Err("service-initialiser", name, "", <<>>)]]
               /\ UNCHANGED serviceIsInitialised
        ELSE IF rec.pending = {}
          THEN ServiceResolve(c, rec) /\ serviceIsInitialised' = TRUE
        ELSE /\ serviceCalls' = [serviceCalls EXCEPT ![c] = rec]
             /\ UNCHANGED serviceIsInitialised
  /\ UNCHANGED services

ServiceInitialiserSettles(c, name, ok) ==
  /\ ServiceInitialiserSettlesCall(c, name, ok)
  /\ UNCHANGED <<thrown, OutsideServices>>

\* ------------------------------------------- ServiceManager.shutdown()
ServiceShutdownCall(c) ==
  /\ serviceCalls[c].pending = {}
  /\ LET rec == [NoServiceCall EXCEPT !.op = "shutdown",
                                      !.wasInitialised = serviceIsInitialised]
         started == InvokeAll(Keys(services))
     IN IF ~serviceIsInitialised
          THEN ServiceResolve(c, rec) /\ UNCHANGED serviceIsInitialised
        ELSE IF started = <<>>
          THEN ServiceResolve(c, rec) /\ serviceIsInitialised' = FALSE
        ELSE /\ serviceCalls' = [serviceCalls EXCEPT ![c] =
                  [rec EXCEPT !.pc = "awaiting", !.started = started,
                              !.pending = Range(started)]]
             /\ UNCHANGED serviceIsInitialised
  /\ UNCHANGED services

ServiceShutdown(c) ==
  /\ ServiceShutdownCall(c)
  /\ UNCHANGED <<thrown, OutsideServices>>

\* a catch block that rethrows
ServiceHookFailedRethrown(rec, name) ==
  [rec EXCEPT !.pc = "rejected", !.error = Err("service-hook", name, "", <<>>)]

\* catch (error) { this.logger.error(...) }: the callback's promise resolves
ServiceHookFailed(rec, name) == rec

\* a service.shutdown() settles: resolves (ok) or rejects (logged)
ServiceHookSettlesCall(c, name, ok) ==
  /\ serviceCalls[c].op = "shutdown"
  /\ name \in serviceCalls[c].pending
  /\ LET settled == [serviceCalls[c] EXCEPT
                       !.pending = @ \ {name},
                       !.completed = IF ok THEN @ \cup {name} ELSE @,
                       !.failed = IF ok THEN @ ELSE @ \cup {name}]
         rec == IF ok THEN settled ELSE ServiceHookFailed(settled, name)
     IN IF rec.pc = "awaiting" /\ rec.pending = {}
          THEN ServiceResolve(c, rec) /\ serviceIsInitialised' = FALSE
          ELSE /\ serviceCalls' = [serviceCalls EXCEPT ![c] = rec]
               /\ UNCHANGED serviceIsInitialised
  /\ UNCHANGED services

ServiceHookSettles(c, name, ok) ==
  /\ ServiceHookSettlesCall(c, name, ok)
  /\ UNCHANGED <<thrown, OutsideServices>>

\* -------------------------------------------- Application.initialise()
\* The Application owns one ModuleManager and one ServiceManager; the call in
\* slot a makes its manager calls in slot a of each.  A continuation after an
\* await runs in the step that settles the awaited promise.
AppWaiting(a) == appCalls[a].pc \in {"modules", "services"}

AppSlotFree(a) ==
  /\ ~AppWaiting(a)
  /\ ~Awaiting(a)
  /\ serviceCalls[a].pending = {}

Running == exitCode = -1

Live(kind, name) == [kind |-> kind, name |-> name]

\* the hooks of one kind the manager call in slot a invoked in this step
ModuleHooksInvoked(a, hook) ==
  LET before == IF calls'[a] = calls[a] \/ (calls[a].op = calls'[a].op /\ Awaiting(a))
                  THEN Len(calls[a].invoked) ELSE 0
  IN  {calls'[a].invoked[i].module :
         i \in {j \in (before + 1)..Len(calls'[a].invoked) : calls'[a].invoked[j].hook = hook}}

AppSettle(a, rec, pc, e) ==
  appCalls' = [appCalls EXCEPT ![a] = [rec EXCEPT !.pc = pc, !.error = e]]

\* process.exit(code) in gracefulShutdown, when a signal handler made the call
ExitAfter(rec, code) ==
  exitCode' = IF rec.signal THEN code ELSE exitCode

\* after await this.serviceManager.initialise()
AfterServicesInitialise(a, rec) ==
  CASE serviceCalls'[a].pc = "resolved" ->
         /\ isRunning' = TRUE
         /\ AppSettle(a, rec, "resolved", NoError)
    [] serviceCalls'[a].pc = "rejected" ->
         /\ AppSettle(a, rec, "rejected", serviceCalls'[a].error)
         /\ UNCHANGED isRunning
    [] OTHER ->
         /\ AppSettle(a, rec, "services", NoError)
         /\ UNCHANGED isRunning

\* after await this.moduleManager.initialise()
AfterModulesInitialise(a, rec) ==
  CASE calls'[a].pc = "resolved" ->
         /\ ServiceInitialiseCall(a)
         /\ AfterServicesInitialise(a, rec)
    [] calls'[a].pc = "rejected" ->
         /\ AppSettle(a, rec, "rejected", calls'[a].error)
         /\ UNCHANGED <<isRunning, serviceVars>>
    [] OTHER ->
         /\ AppSettle(a, rec, "modules", NoError)
         /\ UNCHANGED <<isRunning, serviceVars>>

AppInitialise(a, valid) ==
  /\ Running
  /\ AppSlotFree(a)
  /\ LET rec == [NoAppCall EXCEPT !.op = "initialise"]
     IN IF isRunning
          THEN /\ appCalls' = [appCalls EXCEPT ![a] = [rec EXCEPT !.pc = "resolved"]]
               /\ UNCHANGED <<moduleVars, thrown, serviceVars, isRunning, live>>
        ELSE IF ~valid
          THEN /\ appCalls' = [appCalls EXCEPT ![a] =
                    [rec EXCEPT !.pc = "rejected",
                                !.error = Err("configuration", "", "", <<>>)]]
               /\ UNCHANGED <<moduleVars, thrown, serviceVars, isRunning, live>>
        ELSE /\ InitialiseCall(a)
             /\ AfterModulesInitialise(a, rec)
             /\ UNCHANGED live
  /\ UNCHANGED <<signalHandlers, exitCode, OutsideApp>>

\* a module initializer awaited by moduleManager.initialise() settles
AppModuleInitialiserSettles(a, ok) ==
  /\ Running
  /\ appCalls[a].op = "initialise"
  /\ appCalls[a].pc = "modules"
  /\ InitialiserSettlesCall(a, ok)
  /\ AfterModulesInitialise(a, appCalls[a])
  /\ live' = IF ok THEN live \cup {Live("module", calls[a].order[calls[a].idx])} ELSE live
  /\ UNCHANGED <<signalHandlers, exitCode, OutsideApp>>

\* a service initializer started by serviceManager.initialise() settles
AppServiceInitialiserSettles(a, name, ok) ==
  /\ Running
  /\ appCalls[a].op = "initialise"
  /\ ServiceInitialiserSettlesCall(a, name, ok)
  /\ IF appCalls[a].pc = "services"
       THEN AfterServicesInitialise(a, appCalls[a])
       ELSE UNCHANGED <<appCalls, isRunning>>
  /\ live' = IF ok THEN live \cup {Live("service", name)} ELSE live
  /\ UNCHANGED <<moduleVars, thrown, signalHandlers, exitCode, OutsideApp>>

\* ---------------------------------------------- Application.shutdown()
\* after await this.moduleManager.shutdown()
AfterModulesShutdown(a, rec) ==
  /\ CASE calls'[a].pc = "resolved" ->
            /\ isRunning' = FALSE
            /\ AppSettle(a, rec, "resolved", NoError)
            /\ ExitAfter(rec, 0)
       [] calls'[a].pc = "rejected" ->
            /\ AppSettle(a, rec, "rejected", calls'[a].error)
            /\ ExitAfter(rec, 1)
            /\ UNCHANGED isRunning
       [] OTHER ->
            /\ AppSettle(a, rec, "modules", NoError)
            /\ UNCHANGED <<isRunning, exitCode>>

\* a shutdown() that does not await serviceManager.shutdown()
AfterServicesShutdownUnawaited(a, rec) ==
  /\ ShutdownCall(a)
  /\ AfterModulesShutdown(a, rec)

\* after await this.serviceManager.shutdown(), which never rejects
AfterServicesShutdown(a, rec) ==
  IF serviceCalls'[a].pc = "resolved"
    THEN /\ ShutdownCall(a)
         /\ AfterModulesShutdown(a, rec)
    ELSE /\ AppSettle(a, rec, "services", NoError)
         /\ UNCHANGED <<moduleVars, thrown, isRunning, exitCode>>

\* the hooks the step invoked are no longer live
AfterHooks(a, services0) ==
  live' = live \ ({Live("service", n) : n \in services0}
                   \cup {Live("module", m) : m \in ModuleHooksInvoked(a, "shutdown")})

\* if (!this.isRunning) { warn; return; }
NotRunning == ~isRunning

\* shutdown(), called directly or by gracefulShutdown(signal)
AppShutdownCall(a, signal) ==
  /\ Running
  /\ AppSlotFree(a)
  /\ LET rec == [NoAppCall EXCEPT !.op = "shutdown", !.signal = signal]
     IN IF NotRunning
          THEN /\ appCalls' = [appCalls EXCEPT ![a] = [rec EXCEPT !.pc = "resolved"]]
               /\ exitCode' = IF signal THEN 0 ELSE exitCode
               /\ UNCHANGED <<moduleVars, thrown, serviceVars, isRunning, live>>
          ELSE /\ ServiceShutdownCall(a)
               /\ AfterServicesShutdown(a, rec)
               /\ AfterHooks(a, Range(serviceCalls'[a].started))
  /\ UNCHANGED <<signalHandlers, OutsideApp>>

AppShutdown(a) == AppShutdownCall(a, FALSE)

\* ------------------------------------ Application.setupGracefulShutdown()
SetupGracefulShutdown ==
  /\ Running
  /\ ~signalHandlers
  /\ signalHandlers' = TRUE
  /\ UNCHANGED <<moduleVars, thrown, serviceVars, isRunning, appCalls, exitCode, live,
                 OutsideApp>>

\* SIGTERM or SIGINT is delivered: the handler calls gracefulShutdown(signal)
Signal(a) ==
  /\ signalHandlers
  /\ AppShutdownCall(a, TRUE)

\* a service shutdown hook started by serviceManager.shutdown() settles
AppServiceHookSettles(a, name, ok) ==
  /\ Running
  /\ appCalls[a].op = "shutdown"
  /\ appCalls[a].pc = "services"
  /\ ServiceHookSettlesCall(a, name, ok)
  /\ AfterServicesShutdown(a, appCalls[a])
  /\ AfterHooks(a, {})
  /\ UNCHANGED <<signalHandlers, OutsideApp>>

\* a module shutdown hook awaited by moduleManager.shutdown() settles
AppModuleHookSettles(a, ok) ==
  /\ Running
  /\ appCalls[a].op = "shutdown"
  /\ appCalls[a].pc = "modules"
  /\ ShutdownSettlesCall(a, ok)
  /\ AfterModulesShutdown(a, appCalls[a])
  /\ AfterHooks(a, {})
  /\ UNCHANGED <<serviceVars, signalHandlers, OutsideApp>>

\* ------------------------------------------------ RateLimitMiddleware
\* new RateLimitMiddleware(options)
RateLimitConstruct(max, windowMs) ==
  /\ ~rateOptions.constructed
  /\ rateOptions' = [constructed |-> TRUE, max |-> max, windowMs |-> windowMs]
  /\ UNCHANGED <<rateRequests, now, rateLog, OutsideRate>>

\* isRateLimited(clientId): the answer (limited) and this.requests after it
IsRateLimited(requests, clientId) ==
  LET requestCount == requests[clientId]
  IN  IF ~requestCount.has
        THEN [limited |-> FALSE, requests |-> requests]
      ELSE IF now - requestCount.windowStart > rateOptions.windowMs
        THEN [limited |-> FALSE, requests |-> [requests EXCEPT ![clientId] = NoCount]]
      ELSE [limited |-> requestCount.count >= rateOptions.max, requests |-> requests]

\* recordRequest(clientId)
RecordRequest(requests, clientId) ==
  LET existing == requests[clientId]
  IN  IF ~existing.has \/ now - existing.windowStart > rateOptions.windowMs
        THEN [requests EXCEPT ![clientId] =
               [has |-> TRUE, count |-> 1, windowStart |-> now]]
        ELSE [requests EXCEPT ![clientId].count = @ + 1]

Logged(clientId, did) == [client |-> clientId, time |-> now, did |-> did]

\* execute(context, next) for a context of the client, with or without a
\* response object; what the call did is "429" or "next"
RateLimitExecute(clientId, hasResponse) ==
  /\ rateOptions.constructed
  /\ LET checked == IsRateLimited(rateRequests, clientId)
     IN  IF checked.limited /\ hasResponse
           THEN /\ rateRequests' = checked.requests
                /\ rateLog' = Append(rateLog, Logged(clientId, "429"))
           ELSE /\ rateRequests' = RecordRequest(checked.requests, clientId)
                /\ rateLog' = Append(rateLog, Logged(clientId, "next"))
  /\ UNCHANGED <<rateOptions, now, OutsideRate>>

\* time passes
Tick ==
  /\ now' = now + 1
  /\ UNCHANGED <<rateOptions, rateRequests, rateLog, OutsideRate>>

\* -------------------------------------------------------- EventEmitter
\* What the last emit() did is kept until the listeners are changed from
\* outside an emit.  A registered entry is a listener function (fn, named by what it does when
\* called) and, when once() made it, the number of its onceWrapper closure
\* (wrapper, 0 for a function given to on()).  A Set holds an entry once.
Entry(fn, wrapper) == [fn |-> fn, wrapper |-> wrapper]

SetAdd(set, e) == IF e \in Range(set) THEN set ELSE Append(set, e)

SetDelete(set, e) == SelectSeq(set, LAMBDA x : x # e)

\* on(event, listener), on a Map of listeners
OnMap(map, event, e) ==
  [map EXCEPT ![event] =
     [has |-> TRUE, set |-> SetAdd(IF @.has THEN @.set ELSE <<>>, e)]]

\* off(event, listener), on a Map of listeners
OffMap(map, event, e) ==
  IF ~map[event].has THEN map
  ELSE LET eventListeners == SetDelete(map[event].set, e)
       IN  IF Len(eventListeners) = 0
             THEN [map EXCEPT ![event] = NoListeners]
             ELSE [map EXCEPT ![event].set = eventListeners]

On(event, fn) ==
  /\ emitterListeners' = OnMap(emitterListeners, event, Entry(fn, 0))
  /\ emitted' = NothingEmitted
  /\ UNCHANGED <<onceWrappers, onceInvoked, OutsideEmitter>>

Off(event, fn) ==
  /\ emitterListeners' = OffMap(emitterListeners, event, Entry(fn, 0))
  /\ emitted' = NothingEmitted
  /\ UNCHANGED <<onceWrappers, onceInvoked, OutsideEmitter>>

\* once(event, listener): a new onceWrapper closure is registered
Once(event, fn) ==
  /\ emitterListeners' = OnMap(emitterListeners, event, Entry(fn, onceWrappers + 1))
  /\ onceWrappers' = onceWrappers + 1
  /\ emitted' = NothingEmitted
  /\ UNCHANGED <<onceInvoked, OutsideEmitter>>

\* an emit that lets a listener's exception out
Uncaught(st) == st

\* catch (error) { console.error(...) }
CatchAndLog(st) == [st EXCEPT !.error = NoError]

\* a listener emits the event again while no emit made by a listener is running
MaxDepth == 1

\* emit(event) on the state st = [listeners, invoked, wrappers, error]: the
\* for-of loop over the Set visits the entries in insertion order and skips
\* one that was deleted before its turn; todo holds the entries not yet visited.
RECURSIVE EmitLoop(_, _, _, _)
\* the listener e is called: onceWrapper removes itself first, then the function
\* returns, throws, or emits the event again and returns
Call(st, event, e, depth) ==
  LET removed == IF e.wrapper = 0 THEN st.listeners
                 ELSE OffMap(st.listeners, event, e)
      started == [st EXCEPT !.listeners = removed,
                            !.invoked = Append(@, e),
                            !.wrappers = IF e.wrapper = 0 THEN @ ELSE Append(@, e.wrapper)]
  IN  CASE e.fn = "returns" -> started
        [] e.fn = "throws" -> [started EXCEPT !.error = Err("listener", e.fn, "", <<>>)]
        [] e.fn = "emits" ->
             IF depth < MaxDepth /\ started.listeners[event].has
               THEN EmitLoop(started, event, started.listeners[event].set, depth + 1)
               ELSE started

EmitLoop(st, event, todo, depth) ==
  IF todo = <<>> \/ st.error # NoError THEN st
  ELSE IF ~st.listeners[event].has \/ Head(todo) \notin Range(st.listeners[event].set)
    THEN EmitLoop(st, event, Tail(todo), depth)
  ELSE EmitLoop(CatchAndLog(Call(st, event, Head(todo), depth)), event, Tail(todo), depth)

Emit(event) ==
  /\ LET st == [listeners |-> emitterListeners, invoked |-> <<>>, wrappers |-> <<>>,
                error |-> NoError]
         end == IF emitterListeners[event].has
                  THEN EmitLoop(st, event, emitterListeners[event].set, 0)
                  ELSE st
     IN  /\ emitterListeners' = end.listeners
         /\ onceInvoked' = onceInvoked \o end.wrappers
         /\ emitted' = [done |-> TRUE, event |-> event,
                        before |-> IF emitterListeners[event].has
                                     THEN emitterListeners[event].set ELSE <<>>,
                        invoked |-> end.invoked, error |-> end.error]
  /\ UNCHANGED <<onceWrappers, OutsideEmitter>>

\* ---------------------------------------- MiddlewareManager.register()
\* Array.prototype.sort is stable: with the comparator b.priority - a.priority
\* an element stays behind every element of a priority at least its own
\* that preceded it.
InsertByPriorityBeforeTies(sorted, e) ==
  LET k == Cardinality({i \in DOMAIN sorted : sorted[i].priority > e.priority})
  IN  SubSeq(sorted, 1, k) \o <<e>> \o SubSeq(sorted, k + 1, Len(sorted))

InsertByPriority(sorted, e) ==
  LET k == Cardinality({i \in DOMAIN sorted : sorted[i].priority >= e.priority})
  IN  SubSeq(sorted, 1, k) \o <<e>> \o SubSeq(sorted, k + 1, Len(sorted))

RECURSIVE SortByPriority(_)
SortByPriority(arr) ==
  IF arr = <<>> THEN <<>>
  ELSE InsertByPriority(SortByPriority(SubSeq(arr, 1, Len(arr) - 1)), arr[Len(arr)])

MiddlewareHasNever(ms, n) == FALSE

MiddlewareHas(ms, n) == \E i \in DOMAIN ms : ms[i].name = n

MiddlewareRegister(name, priority) ==
  /\ IF MiddlewareHas(middlewares, name)
       THEN /\ thrown' = Err("middleware-duplicate", name, "", <<>>)
            /\ UNCHANGED middlewareVars
       ELSE /\ middlewares' = SortByPriority(Append(middlewares,
                                  [name |-> name, priority |-> priority]))
            /\ mwRegistered' = Append(mwRegistered, name)
            /\ execution' = NoExecution
            /\ thrown' = NoError
  /\ UNCHANGED OutsideMiddlewares

\* -------------------------------------- MiddlewareManager.unregister()
FindIndex(ms, n) ==
  IF MiddlewareHas(ms, n) THEN Min({i \in DOMAIN ms : ms[i].name = n}) ELSE 0

Splice(arr, index) == SubSeq(arr, 1, index - 1) \o SubSeq(arr, index + 1, Len(arr))

MiddlewareUnregister(middlewareName) ==
  /\ LET index == FindIndex(middlewares, middlewareName)
     IN  IF index = 0
         THEN /\ thrown' = Err("middleware-notfound", middlewareName, "", <<>>)
              /\ UNCHANGED middlewareVars
         ELSE /\ middlewares' = Splice(middlewares, index)
              /\ mwRegistered' = SelectSeq(mwRegistered, LAMBDA n : n # middlewareName)
              /\ execution' = NoExecution
              /\ thrown' = NoError
  /\ UNCHANGED OutsideMiddlewares

\* ----------------------------------------- MiddlewareManager.execute()
\* what IMiddleware.execute(context, next) does: awaits next(); returns
\* without calling it; throws; awaits next() in a try block and swallows what
\* it throws
ExecuteBehaviours == {"next", "return", "throw", "catch"}

\* one behaviour for each registered middleware
HandlersOf(ms) ==
  LET registered == {ms[i].name : i \in DOMAIN ms}
  IN  {[n \in Names |-> IF n \in registered THEN h[n] ELSE "none"] :
         h \in [registered -> ExecuteBehaviours]}

Event(e, name) == [event |-> e, name |-> name]

Raise(st, name) ==
  [st EXCEPT !.error = Err("middleware", name, "", <<>>),
             !.trace = Append(@, Event("throw", name))]

\* catch (error) { this.logger.error(...); throw error; }
LogAndSwallow(st) == [st EXCEPT !.error = NoError]

LogAndRethrow(st) == st

\* the closure next(): currentIndex counts the middlewares started
RECURSIVE ExecuteNext(_, _, _)
ExecuteNext(ms, handlers, st) ==
  IF st.currentIndex >= Len(ms) THEN st
  ELSE LET middleware == ms[st.currentIndex + 1]
           started == [st EXCEPT !.currentIndex = @ + 1,
                                 !.trace = Append(@, Event("start", middleware.name))]
           behaviour == handlers[middleware.name]
           after == ExecuteNext(ms, handlers, started)
           result ==
             CASE behaviour = "next" -> after
               [] behaviour = "return" ->
                    [started EXCEPT !.trace = Append(@, Event("return", middleware.name))]
               [] behaviour = "throw" -> Raise(started, middleware.name)
               [] behaviour = "catch" ->
                    IF after.error = NoError THEN after
                    ELSE [after EXCEPT !.error = NoError,
                                       !.trace = Append(@, Event("catch", middleware.name))]
       IN  IF result.error = NoError THEN result ELSE LogAndRethrow(result)

MiddlewareExecute(handlers) ==
  /\ LET st == ExecuteNext(middlewares, handlers,
                           [currentIndex |-> 0, trace |-> <<>>, error |-> NoError])
     IN  /\ execution' = [done |-> TRUE, trace |-> st.trace, error |-> st.error]
         /\ thrown' = st.error
  /\ UNCHANGED <<middlewares, mwRegistered, OutsideMiddlewares>>

\* ------------------------------------------------------------------ strings
\* A string is the sequence of its characters, so that concatenation, split()
\* and toUpperCase() are computed and not assumed.
IndexOf(str, ch) ==
  IF \E i \in DOMAIN str : str[i] = ch
    THEN Min({i \in DOMAIN str : str[i] = ch})
    ELSE 0

\* String.prototype.split with a one-character separator
RECURSIVE Split(_, _)
Split(str, sep) ==
  LET k == IndexOf(str, sep)
  IN  IF k = 0 THEN <<str>>
      ELSE <<SubSeq(str, 1, k - 1)>> \o Split(SubSeq(str, k + 1, Len(str)), sep)

UpperChar(ch) ==
  CASE ch = "a" -> "A" [] ch = "c" -> "C" [] ch = "e" -> "E" [] ch = "g" -> "G"
    [] ch = "h" -> "H" [] ch = "i" -> "I" [] ch = "n" -> "N" [] ch = "o" -> "O"
    [] ch = "p" -> "P" [] ch = "s" -> "S" [] ch = "t" -> "T" [] ch = "u" -> "U"
    [] OTHER -> ch

ToUpperCase(str) == [i \in DOMAIN str |-> UpperChar(str[i])]

\* HttpMethod values, as registerRoute() and register() take them
get == <<"g", "e", "t">>

post == <<"p", "o", "s", "t">>

options == <<"o", "p", "t", "i", "o", "n", "s">>

\* req.method, as Node reports it
GET == <<"G", "E", "T">>

POST == <<"P", "O", "S", "T">>

PUT == <<"P", "U", "T">>

PATCH == <<"P", "A", "T", "C", "H">>

OPTIONS == <<"O", "P", "T", "I", "O", "N", "S">>

BodyMethods == {POST, PUT, PATCH}

\* route patterns and request paths
UsersId == <<"/", "u", "s", "e", "r", "s", "/", ":", "i", "d">>

UsersMe == <<"/", "u", "s", "e", "r", "s", "/", "m", "e">>

Users42 == <<"/", "u", "s", "e", "r", "s", "/", "4", "2">>

Users42Extra == <<"/", "u", "s", "e", "r", "s", "/", "4", "2", "/", "e", "x", "t", "r", "a">>

RoutePatterns == {UsersId, UsersMe}

RequestPaths == {Users42, UsersMe, Users42Extra}

\* ------------------------------------------------ HttpServer: registration
Handlers == {"h1", "h2"}

MiddlewarePool == <<"m1", "m2", "m3">>

RouteKey(method, path) == method \o <<":">> \o path

HasKey(map, key) == \E i \in DOMAIN map : map[i].key = key

GetKey(map, key) == map[Min({i \in DOMAIN map : map[i].key = key})]

\* Map.set: a new key goes last, a known key keeps its place
SetKey(map, entry) ==
  IF HasKey(map, entry.key)
    THEN [i \in DOMAIN map |-> IF map[i].key = entry.key THEN entry ELSE map[i]]
    ELSE Append(map, entry)

\* a finished request is forgotten when what it was served with changes
Stale(x) == IF x.phase = "done" THEN NoRequest ELSE x

\* The Map holds key -> handler; method and path record what the key was built
\* from.
RegisterRoute(method, path, handler) ==
  /\ httpRoutes' = SetKey(httpRoutes,
                     [key |-> RouteKey(ToUpperCase(method), path), handler |-> handler,
                      method |-> ToUpperCase(method), path |-> path])
  /\ request' = Stale(request)
  /\ thrown' = NoError
  /\ UNCHANGED <<httpMiddlewares, config, OutsideHttp>>

RegisterMiddleware(name) ==
  /\ httpMiddlewares' = Append(httpMiddlewares, [name |-> name])
  /\ request' = Stale(request)
  /\ thrown' = NoError
  /\ UNCHANGED <<httpRoutes, config, OutsideHttp>>

\* updateConfig({cors})
CorsConfigs ==
  {[origin |-> o, credentials |-> c] :
     o \in {<<>>, <<"https://a.example", "https://b.example">>},
     c \in BOOLEAN}

UpdateConfig(cors) ==
  /\ config' = cors
  /\ request' = Stale(request)
  /\ thrown' = NoError
  /\ UNCHANGED <<httpRoutes, httpMiddlewares, OutsideHttp>>

\* ------------------------------------------------- HttpServer: the response
Failed(x) == x.error.kind # "none"

Throw(x, e, where) == [x EXCEPT !.error = e, !.raised = @ \cup {where}]

Then(x, Op(_)) == IF Failed(x) THEN x ELSE Op(x)

\* ServerResponse.setHeader: throws ERR_HTTP_HEADERS_SENT once the head is out
SetHeader(x, name, value) ==
  IF x.res.headersSent
    THEN Throw(x, Err("ERR_HTTP_HEADERS_SENT", name, "", <<>>), "response")
    ELSE [x EXCEPT !.res.headers = {h \in @ : h[1] # name} \cup {<<name, value>>}]

\* ServerResponse.end: the first call sends status, headers and body
ResEnd(x, data) ==
  IF x.res.headersSent THEN x
  ELSE [x EXCEPT !.res.headersSent = TRUE,
                 !.res.sent = [status |-> x.res.statusCode,
                               headers |-> x.res.headers, body |-> data]]

\* JSON.stringify of an object of string members, as the tokens of its text
RECURSIVE JsonMembers(_)
JsonMembers(data) ==
  IF data = <<>> THEN <<>>
  ELSE LET last == data[Len(data)]
           front == SubSeq(data, 1, Len(data) - 1)
       IN  (IF front = <<>> THEN <<>> ELSE JsonMembers(front) \o <<",">>)
             \o <<"\"", last[1], "\"", ":", "\"", last[2], "\"">>

JsonStringify(data) == <<"{">> \o JsonMembers(data) \o <<"}">>

\* the four methods of the object createResponse() returns
ResponseStatus(x, code) == [x EXCEPT !.res.statusCode = code]

ResponseJson(x, data) ==
  Then(SetHeader(x, "Content-Type", <<"application/json">>),
       LAMBDA y : ResEnd(y, JsonStringify(data)))

ResponseSend(x, data) ==
  Then(SetHeader(x, "Content-Type", <<"text/plain">>), LAMBDA y : ResEnd(y, data))

ResponseHeader(x, name, value) == SetHeader(x, name, value)

\* Array.prototype.toString / String.prototype.toString of cors.origin
RECURSIVE OriginToString(_)
OriginToString(origin) ==
  IF Len(origin) <= 1 THEN origin
  ELSE OriginToString(SubSeq(origin, 1, Len(origin) - 1)) \o <<",", origin[Len(origin)]>>

ApplyCORSHeaders(x) ==
  LET origin == IF config.origin = <<>> THEN <<"*">> ELSE config.origin
      a == ResponseHeader(x, "Access-Control-Allow-Origin", OriginToString(origin))
      b == Then(a, LAMBDA y : ResponseHeader(y, "Access-Control-Allow-Methods",
                                <<"GET, POST, PUT, DELETE, PATCH, OPTIONS">>))
      c == Then(b, LAMBDA y : ResponseHeader(y, "Access-Control-Allow-Headers",
                                <<"Content-Type, Authorization, X-Requested-With">>))
  IN  IF config.credentials
        THEN Then(c, LAMBDA y : ResponseHeader(y, "Access-Control-Allow-Credentials",
                                  <<"true">>))
        ELSE c

\* sendErrorResponse(response, status, message): response is the ServerResponse
\* or the HttpResponse wrapper; the wrapper has status, json, send and header
\* and no setHeader, so calling it is a TypeError.
SendErrorResponse(x, response, status, message) ==
  IF response = "HttpResponse"
    THEN Throw(x, Err("TypeError", "setHeader", "", <<>>), "dispatch")
    ELSE Then(SetHeader([x EXCEPT !.res.statusCode = status],
                        "Content-Type", <<"application/json">>),
              LAMBDA y : ResEnd(y, JsonStringify(<<<<"error", message>>>>)))

\* --------------------------------------------------- HttpServer: matchRoute
NoMatch == [found |-> FALSE, handler |-> "", params |-> <<>>]

\* params[paramName] = pathPart
SetParam(params, paramName, pathPart) ==
  IF \E i \in DOMAIN params : params[i][1] = paramName
    THEN [i \in DOMAIN params |->
            IF params[i][1] = paramName THEN <<paramName, pathPart>> ELSE params[i]]
    ELSE Append(params, <<paramName, pathPart>>)

\* the loop of matchRoute; an empty string is falsy
RECURSIVE MatchLoop(_, _, _, _)
MatchLoop(patternParts, pathParts, i, params) ==
  IF i > Len(patternParts) THEN [found |-> TRUE, handler |-> "", params |-> params]
  ELSE LET patternPart == patternParts[i]
           pathPart == pathParts[i]
       IN  IF patternPart = <<>> \/ pathPart = <<>> THEN NoMatch
           ELSE IF patternPart[1] = ":"
             THEN MatchLoop(patternParts, pathParts, i + 1,
                    SetParam(params, SubSeq(patternPart, 2, Len(patternPart)), pathPart))
           ELSE IF patternPart # pathPart THEN NoMatch
           ELSE MatchLoop(patternParts, pathParts, i + 1, params)

MatchRoute(pattern, pathname) ==
  LET patternParts == Split(pattern, "/")
      pathParts == Split(pathname, "/")
  IN  IF Len(patternParts) # Len(pathParts) THEN NoMatch
      ELSE MatchLoop(patternParts, pathParts, 1, <<>>)

\* the loop of findParameterizedRoute over routes.entries();
\* const [routeMethod, routePath] = routeKey.split(":")
RECURSIVE FindLoop(_, _, _, _)
FindLoop(routes, i, method, pathname) ==
  IF i > Len(routes) THEN NoMatch
  ELSE LET parts == Split(routes[i].key, ":")
           routeMethod == parts[1]
           routePath == IF Len(parts) >= 2 THEN parts[2] ELSE <<>>
       IN  IF routeMethod # method \/ routePath = <<>>
             THEN FindLoop(routes, i + 1, method, pathname)
           ELSE LET m == MatchRoute(routePath, pathname)
                IN  IF m.found THEN [m EXCEPT !.handler = routes[i].handler]
                    ELSE FindLoop(routes, i + 1, method, pathname)

FindParameterizedRoute(routes, method, pathname) == FindLoop(routes, 1, method, pathname)

\* ------------------------------------------------- HttpServer: executeRoute
Callback(kind, name) == [kind |-> kind, name |-> name]

\* what a route handler does with the request
HandlerBehaviours == {"respond", "throw", "respondThenThrow"}

Responds(x, handler) == ResponseJson(x, <<<<"handler", handler>>>>)

RunHandler(x, handler, hb) ==
  LET y == [x EXCEPT !.invoked = Append(@, Callback("handler", handler))]
      e == Err("handler", handler, "", <<>>)
  IN  CASE hb = "respond" -> Responds(y, handler)
        [] hb = "throw" -> Throw(y, e, "handler")
        [] hb = "respondThenThrow" ->
             Then(Responds(y, handler), LAMBDA z : Throw(z, e, "handler"))

ExecuteRouteScanOnly(x, hb) ==
  LET y == [x EXCEPT !.routed = TRUE]
      paramHandler == FindParameterizedRoute(httpRoutes, x.method, x.pathname)
  IN  IF paramHandler.found
        THEN RunHandler([y EXCEPT !.params = paramHandler.params],
                        paramHandler.handler, hb)
        ELSE SendErrorResponse(y, "HttpResponse", 404, "Not Found")

ExecuteRoute(x, hb) ==
  LET y == [x EXCEPT !.routed = TRUE]
      routeKey == RouteKey(x.method, x.pathname)
  IN  IF HasKey(httpRoutes, routeKey)
        THEN RunHandler(y, GetKey(httpRoutes, routeKey).handler, hb)
      ELSE LET paramHandler == FindParameterizedRoute(httpRoutes, x.method, x.pathname)
           IN  IF paramHandler.found
                 THEN RunHandler([y EXCEPT !.params = paramHandler.params],
                                 paramHandler.handler, hb)
                 ELSE SendErrorResponse(y, "HttpResponse", 404, "Not Found")

\* ------------------------------------------------ HttpServer: handleRequest
\* what a middleware does: awaits next(), answers without calling next(), or
\* throws
MiddlewareBehaviours == {"next", "respond", "throw"}

BehavioursOf(ms) == [DOMAIN ms -> MiddlewareBehaviours]

\* a middleware may also await next() a second time after the first returned
RepeatingBehavioursOf(ms) == [DOMAIN ms -> MiddlewareBehaviours \cup {"nextTwice"}]

\* the closure next(): middlewareIndex counts the middlewares started
RECURSIVE NextMiddleware(_, _, _)
NextMiddleware(x, mwb, hb) ==
  IF x.middlewareIndex < Len(httpMiddlewares)
    THEN LET middleware == httpMiddlewares[x.middlewareIndex + 1]
             behaviour == mwb[x.middlewareIndex + 1]
             y == [x EXCEPT !.middlewareIndex = @ + 1,
                            !.invoked = Append(@, Callback("middleware", middleware.name))]
             continued == [y EXCEPT !.invoked = Append(@, Callback("next", middleware.name))]
         IN  CASE behaviour = "next" -> NextMiddleware(continued, mwb, hb)
               [] behaviour = "nextTwice" ->
                    Then(NextMiddleware(continued, mwb, hb), LAMBDA z :
                      NextMiddleware([z EXCEPT !.invoked =
                                        Append(@, Callback("next", middleware.name))],
                                     mwb, hb))
               [] behaviour = "respond" ->
                    ResponseJson(ResponseStatus(y, 401), <<<<"error", "Unauthorized">>>>)
               [] behaviour = "throw" ->
                    Throw(y, Err("middleware", middleware.name, "", <<>>), "middleware")
    ELSE ExecuteRoute(x, hb)

\* ------------------------------------------------ HttpServer.start()
MaxListeners == 3

ServerCallWaiting(c) == serverCalls[c].pc \in {"binding", "closing"}

\* if (this.isRunning) { ...; return; }
IsRunning == serverIsRunning

\* start() up to the promise it returns: the guard, createServer() and
\* this.server.listen(port, host, callback)
Start(c) ==
  /\ ~ServerCallWaiting(c)
  /\ IF IsRunning
       THEN /\ serverCalls' = [serverCalls EXCEPT ![c] =
                 [NoServerCall EXCEPT !.op = "start", !.pc = "resolved"]]
            /\ UNCHANGED <<server, listeners>>
       ELSE /\ Len(listeners) < MaxListeners
            /\ listeners' = Append(listeners, "binding")
            /\ server' = Len(listeners) + 1
            /\ serverCalls' = [serverCalls EXCEPT ![c] =
                 [NoServerCall EXCEPT !.op = "start", !.pc = "binding",
                                      !.listener = Len(listeners) + 1]]
  /\ UNCHANGED <<serverIsRunning, OutsideListen>>

\* the port is taken while a listener of this process is bound to it
PortInUse == \E l \in DOMAIN listeners : listeners[l] = "listening"

\* listen() settles: the listening callback runs (ok), or the server emits
\* 'error' (EADDRINUSE when the port is taken) and start() rejects
ListenSettles(l, ok) ==
  /\ l \in DOMAIN listeners
  /\ listeners[l] = "binding"
  /\ ok => ~PortInUse
  /\ listeners' = [listeners EXCEPT ![l] = IF ok THEN "listening" ELSE "failed"]
  /\ serverIsRunning' = (ok \/ serverIsRunning)
  /\ serverCalls' = [c \in Slots |->
       IF serverCalls[c].pc = "binding" /\ serverCalls[c].listener = l
         THEN IF ok THEN [serverCalls[c] EXCEPT !.pc = "resolved"]
              ELSE [serverCalls[c] EXCEPT !.pc = "rejected",
                                          !.error = Err("listen", "", "", <<>>)]
         ELSE serverCalls[c]]
  /\ UNCHANGED <<server, OutsideListen>>

\* ------------------------------------------------- HttpServer.stop()
\* stop() up to the promise it returns: the guard and this.server.close(callback)
Stop(c) ==
  /\ ~ServerCallWaiting(c)
  /\ IF ~serverIsRunning \/ server = 0
       THEN /\ serverCalls' = [serverCalls EXCEPT ![c] =
                 [NoServerCall EXCEPT !.op = "stop", !.pc = "resolved"]]
            /\ UNCHANGED listeners
       ELSE /\ serverCalls' = [serverCalls EXCEPT ![c] =
                 [NoServerCall EXCEPT !.op = "stop", !.pc = "closing",
                                      !.listener = server]]
            /\ listeners' = [listeners EXCEPT ![server] =
                 IF @ \in {"binding", "listening"} THEN "closing" ELSE @]
  /\ UNCHANGED <<server, serverIsRunning, OutsideListen>>

\* the callback given to close() runs, once for each stop() that closed l
CloseCallback(l) ==
  /\ \E c \in Slots : serverCalls[c].pc = "closing" /\ serverCalls[c].listener = l
  /\ listeners' = [listeners EXCEPT ![l] = IF @ = "closing" THEN "closed" ELSE @]
  /\ server' = 0
  /\ serverIsRunning' = FALSE
  /\ serverCalls' = [c \in Slots |->
       IF serverCalls[c].pc = "closing" /\ serverCalls[c].listener = l
         THEN [serverCalls[c] EXCEPT !.pc = "resolved"]
         ELSE serverCalls[c]]
  /\ UNCHANGED OutsideListen

\* JSON.parse over the bodies a request is sent with
Chunks == {"{\"a\":", "1}", "{}"}

JsonParse(x) ==
  IF x.received = <<"{\"a\":", "1}">>
    THEN [x EXCEPT !.body = ObjectBody(<<<<"a", 1>>>>)]
  ELSE IF x.received = <<"{}">>
    THEN [x EXCEPT !.body = ObjectBody(<<>>)]
  ELSE Throw(x, Err("SyntaxError", "", "", <<>>), "parse")

Includes(contentType, part) == \E i \in DOMAIN contentType : contentType[i] = part

ParseBodyUnparsed(x) == [x EXCEPT !.body = StringBody(x.received)]

\* the 'end' listener of parseBody
ParseBody(x) ==
  IF Includes(x.contentType, "application/json")
    THEN IF x.received = <<>>
           THEN [x EXCEPT !.body = ObjectBody(<<>>)]
           ELSE JsonParse(x)
    ELSE [x EXCEPT !.body = StringBody(x.received)]

ParseRequest(x) == IF x.method \in BodyMethods THEN ParseBody(x) ELSE x

HandleRequestWithoutPreflight(x, mwb, hb) ==
  Then(ParseRequest(x), LAMBDA p :
    Then(ApplyCORSHeaders(p), LAMBDA y : NextMiddleware(y, mwb, hb)))

HandleRequest(x, mwb, hb) ==
  Then(ParseRequest(x), LAMBDA p :
    Then(ApplyCORSHeaders(p), LAMBDA y :
      IF y.method = OPTIONS
        THEN ResponseSend(ResponseStatus(y, 200), <<>>)
        ELSE NextMiddleware(y, mwb, hb)))

\* the request listener of createServer: try { await handleRequest } catch
\* { sendErrorResponse(res, 500, ...) }; what the catch block throws rejects
\* the listener's promise, which nothing handles
Listener(x, mwb, hb) ==
  LET handled == HandleRequest(x, mwb, hb)
      caught == SendErrorResponse([handled EXCEPT !.error = NoError],
                                  "ServerResponse", 500, "Internal Server Error")
  IN  IF Failed(handled)
        THEN [caught EXCEPT !.phase = "done", !.unhandled = Failed(caught)]
        ELSE [handled EXCEPT !.phase = "done"]

\* -------------------------------------------------- HttpServer: a request
ContentTypes == {<<>>, <<"text/plain">>, <<"application/json", "; charset=utf-8">>}

MaxChunks == 2

Incoming(method, pathname, contentType) ==
  [NoRequest EXCEPT !.method = method, !.pathname = pathname,
                    !.contentType = contentType]

\* a request without a body to wait for is served as it arrives
RequestArrives(method, pathname, contentType, mwb, hb) ==
  /\ request.phase # "receiving"
  /\ method \notin BodyMethods
  /\ request' = Listener(Incoming(method, pathname, contentType), mwb, hb)
  /\ UNCHANGED <<httpRoutes, httpMiddlewares, config, thrown, OutsideHttp>>

\* parseBody waits for the 'data' and 'end' events of the request
RequestBegins(method, pathname, contentType) ==
  /\ request.phase # "receiving"
  /\ method \in BodyMethods
  /\ request' = [Incoming(method, pathname, contentType) EXCEPT !.phase = "receiving"]
  /\ UNCHANGED <<httpRoutes, httpMiddlewares, config, thrown, OutsideHttp>>

RequestData(chunk) ==
  /\ request.phase = "receiving"
  /\ Len(request.received) < MaxChunks
  /\ request' = [request EXCEPT !.received = Append(@, chunk)]
  /\ UNCHANGED <<httpRoutes, httpMiddlewares, config, thrown, OutsideHttp>>

RequestEnd(mwb, hb) ==
  /\ request.phase = "receiving"
  /\ request' = Listener(request, mwb, hb)
  /\ UNCHANGED <<httpRoutes, httpMiddlewares, config, thrown, OutsideHttp>>

\* ------------------------------------------------- RouteManager.register()
\* a method name in mixed case, which toUpperCase() folds onto GET
Get == <<"G", "e", "t">>

Api == <<"/", "a", "p", "i">>

Health == <<"/", "h", "e", "a", "l", "t", "h">>

ApiHealth == <<"/", "a", "p", "i", "/", "h", "e", "a", "l", "t", "h">>

RouteManagerKeyAsGiven(method, path) == RouteKey(method, path)

RouteManagerKey(method, path) == RouteKey(ToUpperCase(method), path)

RouteManagerRegister(method, path, handler) ==
  /\ LET routeKey == RouteManagerKey(method, path)
     IN  IF HasKey(routeTable, routeKey)
           THEN /\ thrown' = Err("route-duplicate", "", "", routeKey)
                /\ UNCHANGED routeTable
           ELSE /\ routeTable' = Append(routeTable,
                                   [key |-> routeKey, method |-> method, path |-> path,
                                    handler |-> handler])
                /\ thrown' = NoError
  /\ UNCHANGED <<routeGroups, OutsideRoutes>>

\* ----------------------------------------------- RouteManager.createGroup()
CreateGroup(prefix) ==
  /\ IF \E i \in DOMAIN routeGroups : routeGroups[i] = prefix
       THEN /\ thrown' = Err("group-duplicate", "", "", prefix)
            /\ UNCHANGED routeGroups
       ELSE /\ routeGroups' = Append(routeGroups, prefix)
            /\ thrown' = NoError
  /\ UNCHANGED <<routeTable, OutsideRoutes>>

\* --------------------------------------------------- RouteGroup.register()
GroupRegister(prefix, method, path, handler) ==
  /\ \E i \in DOMAIN routeGroups : routeGroups[i] = prefix
  /\ LET fullPath == prefix \o path
     IN  RouteManagerRegister(method, fullPath, handler)

\* ---------------------------------------------------------- specifications
\* The code never orders or inspects names, so a registry built by register()
\* alone is, up to renaming, one whose modules were registered as a, b, c.
NextName == NamePool[Len(modules) + 1]

RegisterNext(flags) ==
  /\ Len(modules) < Len(NamePool)
  /\ \E deps \in DepArrays, en \in flags : Register(NextName, deps, en)

LifecycleStep(c) ==
  \/ Initialise(c)
  \/ \E ok \in BOOLEAN : InitialiserSettles(c, ok)
  \/ Shutdown(c)
  \/ \E ok \in BOOLEAN : ShutdownSettles(c, ok)

\* Start-up and shutdown, one initialise()/shutdown() call at a time (each is
\* awaited before the next is made), over every registry of up to three modules.
Next ==
  \/ RegisterNext(BOOLEAN)
  \/ \E name \in Names : Enable(name)
  \/ \E name \in Names : Disable(name)
  \/ LifecycleStep(1)

Spec == Init /\ [][Next]_vars

\* The slot a new call is recorded in: the lowest that holds no suspended call.
FreeSlots == {c \in Slots : ~Awaiting(c)}

\* Calls made while earlier calls are suspended at an await, over every
\* registry of up to three enabled modules.
NextConcurrent ==
  \/ RegisterNext({TRUE})
  \/ \E c \in Slots :
       /\ Awaiting(c) \/ \A d \in FreeSlots : c <= d
       /\ LifecycleStep(c)

SpecConcurrent == Init /\ [][NextConcurrent]_vars

\* The registration phase alone: register() and unregister() of any name.
NextRegistry ==
  \/ \E name \in Names, deps \in DepArrays : Register(name, deps, TRUE)
  \/ \E name \in Names : Unregister(name)

SpecRegistry == Init /\ [][NextRegistry]_vars

\* The three registries side by side: register and unregister on each.  A
\* register call that would add an entry is made while there is room for it;
\* one that repeats a registered name is always made.
Room == Len(modules) + Len(services) + Len(middlewares) < MaxEntries

NextNames ==
  \/ \E name \in Names :
       /\ Room \/ MapHas(modules, name)
       /\ Register(name, <<>>, TRUE)
  \/ \E name \in Names : Unregister(name)
  \/ \E name \in Names :
       /\ Room \/ MapHas(services, name)
       /\ ServiceRegister(name)
  \/ \E name \in Names : ServiceUnregister(name)
  \/ \E name \in Names, priority \in Priorities :
       /\ Room \/ name \in {middlewares[i].name : i \in DOMAIN middlewares}
       /\ MiddlewareRegister(name, priority)
  \/ \E name \in Names : MiddlewareUnregister(name)

SpecNames == Init /\ [][NextNames]_vars

\* ServiceManager: services are registered before the first call, and
\* initialise() and shutdown() are called, also while an earlier call is
\* awaiting its hooks.
MaxServices == 2

ServicePending(c) == serviceCalls[c].pending # {}

NextServices ==
  \/ /\ serviceCalls = [c \in Slots |-> NoServiceCall]
     /\ Len(services) < MaxServices
     /\ ServiceRegister(NamePool[Len(services) + 1])
  \/ \E c \in Slots :
       /\ \A d \in Slots : ~ServicePending(d) => c <= d
       /\ \/ ServiceInitialise(c)
          \/ ServiceShutdown(c)
  \/ \E c \in Slots, name \in Names, ok \in BOOLEAN :
       \/ ServiceInitialiserSettles(c, name, ok)
       \/ ServiceHookSettles(c, name, ok)

SpecServices == Init /\ [][NextServices]_vars

\* MiddlewareManager: middlewares are registered and unregistered, and the
\* chain is executed; a middleware list is not changed while it runs.
NextMiddlewares ==
  \/ \E name \in Names, priority \in Priorities : MiddlewareRegister(name, priority)
  \/ \E name \in Names : MiddlewareUnregister(name)
  \/ \E handlers \in HandlersOf(middlewares) : MiddlewareExecute(handlers)

SpecMiddlewares == Init /\ [][NextMiddlewares]_vars

\* Application: modules and services are registered, then the application is
\* initialised and shut down.  Direct calls are made one at a time (each is
\* awaited before the next is made); a signal is delivered at any moment, also
\* while an earlier call is awaiting a hook.
MaxAppModules == 2

NotStarted == appCalls = [c \in Slots |-> NoAppCall]

NextApp ==
  \/ /\ NotStarted
     /\ Len(modules) < MaxAppModules
     /\ \E en \in BOOLEAN : Register(NextName, <<>>, en)
  \/ /\ NotStarted
     /\ Len(services) < MaxServices
     /\ ServiceRegister(NamePool[Len(services) + 1])
  \/ SetupGracefulShutdown
  \/ /\ \A d \in Slots : AppSlotFree(d)
     /\ \/ \E valid \in BOOLEAN : AppInitialise(1, valid)
        \/ AppShutdown(1)
  \/ \E a \in Slots :
       /\ \A d \in Slots : AppSlotFree(d) => a <= d
       /\ Signal(a)
  \/ \E a \in Slots, ok \in BOOLEAN :
       \/ AppModuleInitialiserSettles(a, ok)
       \/ AppModuleHookSettles(a, ok)
  \/ \E a \in Slots, name \in Names, ok \in BOOLEAN :
       \/ AppServiceInitialiserSettles(a, name, ok)
       \/ AppServiceHookSettles(a, name, ok)

SpecApp == Init /\ [][NextApp]_vars

\* Application as above, with one signal delivered at most: the handler of the
\* first signal ends the process, and a second signal arriving before it has
\* finished is left out.
OneSignal == Cardinality({d \in Slots : appCalls[d].signal}) <= 1

NextAppOrder == NextApp /\ OneSignal'

SpecAppOrder == Init /\ [][NextAppOrder]_vars

\* RateLimitMiddleware: a middleware is constructed with some options, and
\* requests of two clients arrive as time passes.
MaxRate == 2

MaxWindowMs == 2

MaxTime == 4

MaxRequests == 4

NextRate ==
  \/ \E max \in 1..MaxRate, windowMs \in 1..MaxWindowMs : RateLimitConstruct(max, windowMs)
  \/ \E clientId \in Clients, hasResponse \in BOOLEAN :
       /\ Len(rateLog) < MaxRequests
       /\ RateLimitExecute(clientId, hasResponse)
  \/ now < MaxTime /\ Tick

SpecRate == Init /\ [][NextRate]_vars

\* EventEmitter: listeners are added with on() and once() and removed with
\* off(), and events are emitted, also by a listener while an emit is running.
MaxOnce == 2

MaxSetSize == 3

MaxOnceInvoked == 3

RECURSIVE SetSizes(_)
SetSizes(events) ==
  IF events = {} THEN 0
  ELSE LET event == CHOOSE x \in events : TRUE
       IN  (IF emitterListeners[event].has THEN Len(emitterListeners[event].set) ELSE 0)
           + SetSizes(events \ {event})

RoomForListener == SetSizes(Events) < MaxSetSize

NextEmitter ==
  \/ \E event \in Events, fn \in ListenerFns :
       /\ RoomForListener
       /\ On(event, fn)
  \/ \E event \in Events, fn \in ListenerFns :
       /\ RoomForListener
       /\ onceWrappers < MaxOnce
       /\ Once(event, fn)
  \/ \E event \in Events, fn \in ListenerFns : Off(event, fn)
  \/ \E event \in Events :
       /\ Len(onceInvoked) < MaxOnceInvoked
       /\ Emit(event)

SpecEmitter == Init /\ [][NextEmitter]_vars

\* HttpServer, listening: start() and stop() are called, also while an earlier
\* call is waiting for its listener; at most MaxListeners net servers are made.
NextListen ==
  \/ \E c \in Slots :
       /\ \A d \in Slots : ~ServerCallWaiting(d) => c <= d
       /\ \/ Start(c)
          \/ Stop(c)
  \/ \E l \in 1..MaxListeners, ok \in BOOLEAN : ListenSettles(l, ok)
  \/ \E l \in 1..MaxListeners : CloseCallback(l)

SpecListen == Init /\ [][NextListen]_vars

\* RouteManager: routes are registered directly and through a group.
RouteMethods == {get, Get, post}

NextRoutes ==
  \/ \E method \in RouteMethods, handler \in Handlers :
       RouteManagerRegister(method, ApiHealth, handler)
  \/ RouteManagerRegister(get, Health, "h1")
  \/ CreateGroup(Api)
  \/ \E method \in RouteMethods, handler \in Handlers :
       GroupRegister(Api, method, Health, handler)

SpecRoutes == Init /\ [][NextRoutes]_vars

\* HttpServer, routing: routes of two methods over the overlapping patterns
\* and middlewares are registered, and GET requests are served.
MaxRoutes == 2

MaxHttpMiddlewares == 2

RoomForRoute(method, path) ==
  \/ Len(httpRoutes) < MaxRoutes
  \/ HasKey(httpRoutes, RouteKey(ToUpperCase(method), path))

RegisterNextMiddleware ==
  /\ Len(httpMiddlewares) < MaxHttpMiddlewares
  /\ RegisterMiddleware(MiddlewarePool[Len(httpMiddlewares) + 1])

NextRouting ==
  \/ \E method \in {get, post}, path \in RoutePatterns, handler \in Handlers :
       RoomForRoute(method, path) /\ RegisterRoute(method, path, handler)
  \/ RegisterNextMiddleware
  \/ \E pathname \in RequestPaths,
        mwb \in BehavioursOf(httpMiddlewares), hb \in HandlerBehaviours :
       RequestArrives(GET, pathname, <<>>, mwb, hb)

SpecRouting == Init /\ [][NextRouting]_vars

\* HttpServer, the middleware chain: a route and middlewares are registered and
\* GET requests are served by middlewares that call next() any number of
\* times up to two.
NextChain ==
  \/ \E path \in {UsersMe, UsersId}, handler \in Handlers :
       RoomForRoute(get, path) /\ RegisterRoute(get, path, handler)
  \/ RegisterNextMiddleware
  \/ \E pathname \in {UsersMe, Users42},
        mwb \in RepeatingBehavioursOf(httpMiddlewares), hb \in HandlerBehaviours :
       RequestArrives(GET, pathname, <<>>, mwb, hb)

SpecChain == Init /\ [][NextChain]_vars

\* HttpServer, preflight: the CORS configuration is updated, routes of
\* /users/me and middlewares are registered, and OPTIONS and GET requests are
\* served.
NextCors ==
  \/ \E method \in {get, options} :
       RoomForRoute(method, UsersMe) /\ RegisterRoute(method, UsersMe, "h1")
  \/ RegisterNextMiddleware
  \/ \E cors \in CorsConfigs : UpdateConfig(cors)
  \/ \E method \in {GET, OPTIONS}, pathname \in {UsersMe, Users42},
        mwb \in BehavioursOf(httpMiddlewares), hb \in HandlerBehaviours :
       RequestArrives(method, pathname, <<>>, mwb, hb)

SpecCors == Init /\ [][NextCors]_vars

\* HttpServer, requests with and without a body: a route of /users/me and
\* middlewares are registered and requests are served; registration may fall
\* between the chunks of a body.
NextHttp ==
  \/ RoomForRoute(post, UsersMe) /\ RegisterRoute(post, UsersMe, "h1")
  \/ RegisterNextMiddleware
  \/ \E method \in {GET, OPTIONS},
        mwb \in BehavioursOf(httpMiddlewares), hb \in HandlerBehaviours :
       RequestArrives(method, UsersMe, <<>>, mwb, hb)
  \/ \E method \in BodyMethods, contentType \in ContentTypes :
       RequestBegins(method, UsersMe, contentType)
  \/ \E chunk \in Chunks : RequestData(chunk)
  \/ \E mwb \in BehavioursOf(httpMiddlewares), hb \in HandlerBehaviours :
       RequestEnd(mwb, hb)

SpecHttp == Init /\ [][NextHttp]_vars

\* ------------------------------------------------------------- properties
\* The registry as a graph, stated without the traversals of the code.
Registered == {e.name : e \in Range(modules)}

EnabledModules == {e.name : e \in {x \in Range(modules) : x.enabled}}

DepsOf(n) == UNION {Range(e.deps) : e \in {x \in Range(dependencyGraph) : x.name = n}}

MissingPairs == {<<m, d>> \in Registered \X Names : d \in DepsOf(m) /\ d \notin Registered}

RECURSIVE ReachIn(_, _)
ReachIn(S, k) ==
  IF k = 0 THEN S
  ELSE ReachIn(S \cup UNION {DepsOf(n) : n \in S}, k - 1)

\* the modules that n depends on, directly or through other modules
DependsOn(n) == ReachIn(DepsOf(n), Cardinality(Names))

OnCycle(n) == n \in DependsOn(n)

Cyclic == \E n \in Registered : OnCycle(n)

InvokedModules(rec) == [k \in DOMAIN rec.invoked |-> rec.invoked[k].module]

Times(seq, x) == Cardinality({k \in DOMAIN seq : seq[k] = x})

Finished(rec) == rec.pc \in {"resolved", "rejected"}

\* the initialise() calls that found the manager uninitialised
Startups == {c \in Slots : calls[c].op = "initialise" /\ ~calls[c].wasInitialised}

\* the shutdown() calls that found the manager initialised
Teardowns == {c \in Slots : calls[c].op = "shutdown" /\ calls[c].wasInitialised}

\* C1: in an acyclic registry with every dependency registered, whenever
\* initialise() has invoked the initializer of a module, it has before that
\* invoked the initializer of each declared dependency of the module (and,
\* the calls being awaited one after the other, seen it complete).
C1_DependenciesInitialisedFirst ==
  \A c \in Startups :
    (MissingPairs = {} /\ ~Cyclic) =>
      \A k \in DOMAIN calls[c].invoked :
        \A d \in DepsOf(calls[c].invoked[k].module) :
          \E j \in 1..(k - 1) : calls[c].invoked[j] = Hook("initialise", d)

\* C2: when every dependency is registered and the registry has a dependency
\* cycle, initialise() on an uninitialised manager is rejected with a
\* circular-dependency error that names a module on a cycle, has invoked no
\* hook, and leaves the manager uninitialised.
C2_CycleRejected ==
  \A c \in Startups :
    (MissingPairs = {} /\ Cyclic) =>
      /\ calls[c].pc = "rejected"
      /\ calls[c].error.kind = "circular"
      /\ OnCycle(calls[c].error.module)
      /\ calls[c].invoked = <<>>
      /\ ~isInitialised

\* a rejected start-up over a cycle of two or more modules, next to a module
\* that is on no cycle
C2_Witness ==
  \E c \in Startups :
    /\ calls[c].pc = "rejected"
    /\ calls[c].error.kind = "circular"
    /\ MissingPairs = {}
    /\ \E m \in Registered : ~OnCycle(m)
    /\ \E m \in Registered : OnCycle(m) /\ m \notin DepsOf(m)

\* C3: when some registered module declares a dependency that is not
\* registered, initialise() on an uninitialised manager is rejected with a
\* missing-dependency error naming such a module and its missing dependency,
\* has invoked no hook, and leaves the manager uninitialised.
C3_MissingDependencyRejected ==
  \A c \in Startups :
    MissingPairs # {} =>
      /\ calls[c].pc = "rejected"
      /\ calls[c].error.kind = "missing"
      /\ <<calls[c].error.module, calls[c].error.dep>> \in MissingPairs
      /\ calls[c].invoked = <<>>
      /\ ~isInitialised

\* a rejected start-up where an enabled module has all its (two) dependencies
\* but the last registered, and another enabled module has no dependency at all
C3_Witness ==
  \E c \in Startups :
    /\ calls[c].pc = "rejected"
    /\ calls[c].error.kind = "missing"
    /\ \E e \in Range(dependencyGraph) :
         /\ Len(e.deps) = 2
         /\ e.deps[1] \in Registered
         /\ e.deps[2] \notin Registered
    /\ \E m \in EnabledModules : DepsOf(m) = {}

\* C4: once an initializer invoked by initialise() has failed, the call is
\* rejected with the error of that initializer, the failed initializer is the
\* last hook the call invoked, the call invoked initializers only (no shutdown
\* hook), each of a module at or before the failed one in the computed order,
\* and the manager is uninitialised.
C4_InitialiserFailureAborts ==
  \A c \in Startups :
    calls[c].failed # {} =>
      LET rec == calls[c]
          k   == rec.idx
      IN /\ rec.pc = "rejected"
         /\ rec.failed = {rec.order[k]}
         /\ rec.error = Err("initialiser", rec.order[k], "", <<>>)
         /\ rec.invoked[Len(rec.invoked)] = Hook("initialise", rec.order[k])
         /\ \A h \in Range(rec.invoked) :
              /\ h.hook = "initialise"
              /\ \E j \in 1..k : rec.order[j] = h.module
         /\ ~isInitialised

\* the first of three enabled modules initialised, the second failed
C4_Witness ==
  \E c \in Startups :
    /\ calls[c].pc = "rejected"
    /\ calls[c].error.kind = "initialiser"
    /\ Len(calls[c].invoked) = 2
    /\ Cardinality(EnabledModules) = 3

\* C5: no hook is invoked on a module whose isEnabled() is false, neither an
\* initializer by initialise() nor a shutdown hook by shutdown(); and a
\* start-up that completed has initialised every enabled module.
C5_DisabledNeverTouched ==
  /\ \A c \in Slots : \A h \in Range(calls[c].invoked) : h.module \in EnabledModules
  /\ \A c \in Startups :
       calls[c].pc = "resolved" =>
         EnabledModules \subseteq Range(InvokedModules(calls[c]))

\* C6: an initialise() that finds the manager initialised invokes nothing and
\* resolves; the initialise() before it, which completed, invoked the
\* initializer of each enabled module exactly once and left the manager
\* initialised; a shutdown() that finds the manager uninitialised invokes
\* nothing and resolves; the shutdown() before it invoked each hook at most
\* once and left the manager uninitialised.
C6_SecondCallIsNoOp ==
  \A c \in Slots :
    LET rec == calls[c]
    IN /\ (rec.op = "initialise" /\ rec.wasInitialised) =>
            rec.pc = "resolved" /\ rec.invoked = <<>> /\ isInitialised
       /\ (rec.op = "initialise" /\ ~rec.wasInitialised /\ rec.pc = "resolved") =>
            /\ isInitialised
            /\ \A m \in EnabledModules : Times(rec.invoked, Hook("initialise", m)) = 1
       /\ (rec.op = "shutdown" /\ ~rec.wasInitialised) =>
            rec.pc = "resolved" /\ rec.invoked = <<>> /\ ~isInitialised
       /\ (rec.op = "shutdown" /\ rec.wasInitialised) =>
            /\ rec.pc = "resolved" => ~isInitialised
            /\ \A m \in Names : Times(rec.invoked, Hook("shutdown", m)) <= 1

\* a second initialise() on a manager that two enabled modules made ready
C6_Witness ==
  \E c \in Slots :
    /\ calls[c].op = "initialise"
    /\ calls[c].wasInitialised
    /\ calls[c].pc = "resolved"
    /\ Cardinality(EnabledModules) >= 2

\* C7: when nothing was registered, unregistered, enabled or disabled since
\* the initialise() that made the manager ready, a completed shutdown() has
\* invoked the shutdown hooks of exactly the modules that initialise()
\* initialised, in the reverse order.
C7_ShutdownReversesStartup ==
  \A c \in Teardowns :
    (calls[c].pc = "resolved" /\ readyOrder.known) =>
      InvokedModules(calls[c]) =
        Reverse([k \in DOMAIN readyOrder.seq |-> readyOrder.seq[k].module])

\* C8: a shutdown() of an initialised manager in which a shutdown hook has
\* failed is never rejected, and once it has completed it has invoked the
\* shutdown hook of every registered module and the manager is uninitialised.
C8_ShutdownFailureTolerated ==
  \A c \in Teardowns :
    calls[c].failed # {} =>
      /\ calls[c].pc # "rejected"
      /\ calls[c].pc = "resolved" =>
           /\ \A m \in Registered : Hook("shutdown", m) \in Range(calls[c].invoked)
           /\ ~isInitialised

\* a completed shutdown whose first hook failed and whose later hooks ran
C8_Witness ==
  \E c \in Teardowns :
    /\ calls[c].pc = "resolved"
    /\ Len(calls[c].invoked) = 3
    /\ calls[c].invoked[1].module \in calls[c].failed
    /\ calls[c].invoked[3].module \notin calls[c].failed

\* C9: an initialise() called while another initialise() is suspended at an
\* await invokes no initializer, and a shutdown() called while an initialise()
\* or another shutdown() is suspended invokes no shutdown hook.
C9_OverlappingCallsInvokeNothing ==
  \A c \in Slots :
    /\ (calls[c].op = "initialise" /\ "initialise" \in calls[c].overlapped) =>
         calls[c].invoked = <<>>
    /\ (calls[c].op = "shutdown" /\ calls[c].overlapped # {}) =>
         calls[c].invoked = <<>>

\* what unregister(n) is to do, from the state it is called in
UnregisterContract(n) ==
  IF n \notin Registered
    THEN /\ thrown'.kind = "notfound"
         /\ UNCHANGED <<modules, dependencyGraph>>
  ELSE IF \E m \in Registered \ {n} : n \in DepsOf(m)
    THEN /\ thrown'.kind = "dependents"
         /\ UNCHANGED <<modules, dependencyGraph>>
  ELSE /\ thrown'.kind = "none"
       /\ modules' = SelectSeq(modules, LAMBDA e : e.name # n)
       /\ dependencyGraph' = SelectSeq(dependencyGraph, LAMBDA e : e.name # n)

\* C10: unregister(name) throws a not-found error and changes nothing when
\* name is not registered; throws a dependents-exist error and changes
\* nothing when another registered module lists name as a dependency; and
\* otherwise removes the module's entry from both maps.
C10_UnregisterContract ==
  [][\A n \in Names : Unregister(n) => UnregisterContract(n)]_vars

\* ---------------------------------------------------------------- C11
NoSharedName(entries) ==
  \A i, j \in DOMAIN entries : entries[i].name = entries[j].name => i = j

NamesIn(entries) == {entries[i].name : i \in DOMAIN entries}

\* C11: in each of ModuleManager, ServiceManager and MiddlewareManager no two
\* registered entries share a name, and a register call with a name that is
\* already registered throws and leaves that manager's contents, and for
\* middleware its order, unchanged.
C11_NamesUnique ==
  [][/\ NoSharedName(modules)' /\ NoSharedName(services)' /\ NoSharedName(middlewares)'
     /\ \A name \in Names :
          /\ (/\ name \in NamesIn(modules)
              /\ \E deps \in DepArrays, en \in BOOLEAN : Register(name, deps, en))
               => /\ thrown' = Err("duplicate", name, "", <<>>)
                  /\ UNCHANGED <<modules, dependencyGraph>>
          /\ (name \in NamesIn(services) /\ ServiceRegister(name))
               => /\ thrown' = Err("service-duplicate", name, "", <<>>)
                  /\ UNCHANGED services
          /\ (/\ name \in NamesIn(middlewares)
              /\ \E priority \in Priorities : MiddlewareRegister(name, priority))
               => /\ thrown' = Err("middleware-duplicate", name, "", <<>>)
                  /\ UNCHANGED middlewares]_vars

\* a duplicate register has just been refused by the middleware manager, which
\* holds two entries of one priority, while another manager holds an entry too
C11_Witness ==
  /\ thrown.kind = "middleware-duplicate"
  /\ Len(middlewares) = 2
  /\ middlewares[1].priority = middlewares[2].priority
  /\ modules # <<>> \/ services # <<>>

\* ---------------------------------------------------------------- C12
\* the request has been served and every middleware called next()
Routed == request.phase = "done" /\ request.routed

\* the pattern has as many '/'-separated segments as the path, and each one
\* equals the path's or is ':name'
IsParam(segment) == segment # <<>> /\ segment[1] = ":"

PatternMatches(pattern, path) ==
  LET ps == Split(pattern, "/")
      qs == Split(path, "/")
  IN  /\ Len(ps) = Len(qs)
      /\ \A i \in DOMAIN ps : ps[i] = qs[i] \/ IsParam(ps[i])

ParamsOf(pattern, path) ==
  LET ps == Split(pattern, "/")
      qs == Split(path, "/")
  IN  {<<SubSeq(ps[i], 2, Len(ps[i])), qs[i]>> : i \in {k \in DOMAIN ps : IsParam(ps[k])}}

\* the registered routes of the request's method whose pattern matches its path
Matching ==
  {i \in DOMAIN httpRoutes :
     /\ httpRoutes[i].method = request.method
     /\ PatternMatches(httpRoutes[i].path, request.pathname)}

KeyRegistered ==
  \E i \in DOMAIN httpRoutes :
    httpRoutes[i].method = request.method /\ httpRoutes[i].path = request.pathname

HandlersRun ==
  SelectSeq(request.invoked, LAMBDA cb : cb.kind = "handler")

\* C12: a request whose METHOD:path is not a registered key is dispatched to
\* a registered route of its method whose pattern matches segment by segment,
\* with request.params holding the path segment of every ':name'; when no
\* pattern matches, a different segment count included, no route is run.
C12_ParameterisedRouteDispatched ==
  (Routed /\ ~KeyRegistered) =>
     IF Matching = {}
       THEN HandlersRun = <<>>
       ELSE \E i \in Matching :
              /\ HandlersRun = <<Callback("handler", httpRoutes[i].handler)>>
              /\ Range(request.params) = ParamsOf(httpRoutes[i].path, request.pathname)

\* ---------------------------------------------------------------- C13
NotFoundBody == <<"{", "\"", "error", "\"", ":", "\"", "Not Found", "\"", "}">>

\* C13: when every middleware calls next() and no registered route matches
\* the request's method and path, the client receives status 404 with the
\* JSON body {error: "Not Found"}.
C13_NotFoundAnswered ==
  (Routed /\ Matching = {}) =>
     /\ request.res.headersSent
     /\ request.res.sent.status = 404
     /\ request.res.sent.body = NotFoundBody

\* ---------------------------------------------------------------- C14
InternalServerErrorBody ==
  <<"{", "\"", "error", "\"", ":", "\"", "Internal Server Error", "\"", "}">>

\* C14: an exception raised while parsing the request, in a middleware or in
\* a route handler gives the request one response, of status 500 and body
\* {error: "Internal Server Error"}, and no rejection is left unhandled to
\* take the server down.
C14_ExceptionAnsweredWith500 ==
  (request.phase = "done" /\ request.raised \cap {"parse", "middleware", "handler"} # {}) =>
     /\ request.res.headersSent
     /\ request.res.sent.status = 500
     /\ request.res.sent.body = InternalServerErrorBody
     /\ ~request.unhandled

\* ---------------------------------------------------------------- C15
\* C15 as stated: when two routes of the request's method both match its
\* path, the request goes to the one registered first.
C15_FirstRegisteredWins ==
  (Routed /\ Cardinality(Matching) >= 2) =>
     HandlersRun = <<Callback("handler", httpRoutes[Min(Matching)].handler)>>

\* the registered routes whose key is the request's own METHOD:path
Literal ==
  {i \in DOMAIN httpRoutes :
     httpRoutes[i].method = request.method /\ httpRoutes[i].path = request.pathname}

\* C15, amended: when the request path is itself a registered route and also
\* matches a parameterised pattern of the same method, the request goes to
\* the literal route, whichever of the two was registered first.
C15_LiteralRouteWins ==
  (Routed /\ Literal # {} /\ Matching \ Literal # {}) =>
     \E i \in Literal : HandlersRun = <<Callback("handler", httpRoutes[i].handler)>>

\* /users/:id was registered before /users/me with another handler, and the
\* request for /users/me has been dispatched
C15_Witness ==
  /\ Routed
  /\ \E i \in Literal, j \in Matching \ Literal :
       j < i /\ httpRoutes[i].handler # httpRoutes[j].handler
  /\ HandlersRun # <<>>

\* ---------------------------------------------------------------- C16
\* a route of the same method, in any letter case, and the same full path
SameRoute(method, fullPath) ==
  {i \in DOMAIN routeTable :
     /\ ToUpperCase(routeTable[i].method) = ToUpperCase(method)
     /\ routeTable[i].path = fullPath}

RegisterContract(method, fullPath, handler) ==
  IF SameRoute(method, fullPath) # {}
    THEN /\ thrown'.kind = "route-duplicate"
         /\ UNCHANGED routeTable
    ELSE /\ thrown'.kind = "none"
         /\ Len(routeTable') = Len(routeTable) + 1
         /\ SubSeq(routeTable', 1, Len(routeTable)) = routeTable
         /\ routeTable'[Len(routeTable')].method = method
         /\ routeTable'[Len(routeTable')].path = fullPath
         /\ routeTable'[Len(routeTable')].handler = handler

\* C16: a route is identified by uppercase(method) + ':' + full path: a
\* registration whose method, in any letter case, and full path are those of
\* a registered route throws a duplicate-route error and leaves the route
\* table unchanged, and any other registration adds the route, whether the
\* registration is made directly or through a group whose prefix + path is
\* that full path.
C16_DuplicateRouteRejected ==
  [][\A method \in RouteMethods, handler \in Handlers :
       /\ \A path \in {Health, ApiHealth} :
            RouteManagerRegister(method, path, handler)
              => RegisterContract(method, path, handler)
       /\ GroupRegister(Api, method, Health, handler)
            => RegisterContract(method, ApiHealth, handler)]_vars

\* a duplicate of GET /api/health has been refused, the route having been
\* registered under a method in mixed case, with the group /api in existence
C16_Witness ==
  /\ thrown.kind = "route-duplicate"
  /\ thrown.list = RouteKey(GET, ApiHealth)
  /\ routeGroups = <<Api>>
  /\ \E i \in DOMAIN routeTable :
       routeTable[i].method = Get /\ routeTable[i].path = ApiHealth

\* ---------------------------------------------------------------- C17
\* the CORS headers of the configuration: the origin, or * when there is none
ConfiguredOrigin ==
  IF config.origin = <<>> THEN <<"*">>
  ELSE IF Len(config.origin) = 1 THEN config.origin
  ELSE <<config.origin[1], ",", config.origin[2]>>

CorsHeaders ==
  {<<"Access-Control-Allow-Origin", ConfiguredOrigin>>,
   <<"Access-Control-Allow-Methods", <<"GET, POST, PUT, DELETE, PATCH, OPTIONS">>>>,
   <<"Access-Control-Allow-Headers", <<"Content-Type, Authorization, X-Requested-With">>>>}
    \cup (IF config.credentials
            THEN {<<"Access-Control-Allow-Credentials", <<"true">>>>}
            ELSE {})

HeaderNames(headers) == {h[1] : h \in headers}

\* C17: an OPTIONS request to any path, with or without a registered route,
\* is answered with status 200, the configured CORS headers and an empty
\* body, and no middleware and no route handler is invoked for it.
C17_PreflightAnswered ==
  (request.phase = "done" /\ request.method = OPTIONS) =>
     /\ request.res.headersSent
     /\ request.res.sent.status = 200
     /\ request.res.sent.body = <<>>
     /\ CorsHeaders \subseteq request.res.sent.headers
     /\ config.credentials
          \/ "Access-Control-Allow-Credentials" \notin HeaderNames(request.res.sent.headers)
     /\ request.invoked = <<>>

\* an OPTIONS request was answered while a route of its own method and path
\* and a middleware were registered and an origin list with credentials was
\* configured
C17_Witness ==
  /\ request.phase = "done" /\ request.method = OPTIONS
  /\ request.res.headersSent
  /\ HasKey(httpRoutes, RouteKey(OPTIONS, request.pathname))
  /\ httpMiddlewares # <<>>
  /\ config.origin # <<>> /\ config.credentials

\* ---------------------------------------------------------------- C18
JsonContentType ==
  \E i \in DOMAIN request.contentType : request.contentType[i] = "application/json"

\* the request was answered 500 and nothing was invoked for it
Refused ==
  /\ request.res.sent.status = 500
  /\ request.res.sent.body = InternalServerErrorBody
  /\ request.invoked = <<>>

\* C18: while the body of a POST, PUT or PATCH request is arriving no
\* middleware or handler has run; with a Content-Type containing
\* application/json the whole body is delivered parsed, an empty body as the
\* empty object, and a malformed body is answered 500 with nothing invoked;
\* with any other Content-Type the whole raw body is delivered; for the
\* other methods no body is read.
C18_BodyParsed ==
  /\ request.phase = "receiving" =>
       request.invoked = <<>> /\ ~request.res.headersSent
  /\ request.phase = "done" =>
       IF request.method \notin {POST, PUT, PATCH} THEN request.body.kind = "undefined"
       ELSE IF ~JsonContentType
         THEN request.body.kind = "string" /\ request.body.text = request.received
       ELSE IF request.received = <<>>
         THEN request.body.kind = "object" /\ request.body.members = <<>>
       ELSE IF request.received = <<"{\"a\":", "1}">>
         THEN request.body.kind = "object" /\ request.body.members = <<<<"a", 1>>>>
       ELSE IF request.received = <<"{}">>
         THEN request.body.kind = "object" /\ request.body.members = <<>>
       ELSE Refused

\* a POST whose JSON body came in two chunks has been dispatched to the
\* handler of its route
C18_Witness ==
  /\ request.phase = "done" /\ request.method = POST
  /\ JsonContentType /\ Len(request.received) = 2
  /\ request.body.kind = "object" /\ request.body.members # <<>>
  /\ \E i \in DOMAIN request.invoked : request.invoked[i].kind = "handler"

\* ---------------------------------------------------------------- C19
PriorityOf(n) == middlewares[CHOOSE i \in DOMAIN middlewares : middlewares[i].name = n].priority

RegisteredAt(n) == CHOOSE i \in DOMAIN mwRegistered : mwRegistered[i] = n

\* a runs before b: its priority is higher, or equal and it was registered first
RunsBefore(a, b) ==
  \/ PriorityOf(a) > PriorityOf(b)
  \/ PriorityOf(a) = PriorityOf(b) /\ RegisteredAt(a) < RegisteredAt(b)

EventsOf(e) == SelectSeq(execution.trace, LAMBDA ev : ev.event = e)

Started == [k \in DOMAIN EventsOf("start") |-> EventsOf("start")[k].name]

\* the middlewares that did not call next(): they returned or threw
Stopped == {ev.name : ev \in Range(EventsOf("return")) \cup Range(EventsOf("throw"))}

Positions(kind, name) ==
  {k \in DOMAIN request.invoked : request.invoked[k] = Callback(kind, name)}

MiddlewareNames == {httpMiddlewares[i].name : i \in DOMAIN httpMiddlewares}

\* C21: within a request the route handler is invoked only after every
\* registered middleware has been invoked and has called next(); when a
\* middleware has not called next(), no later middleware and no route handler
\* runs for that request.
C21_HandlerAfterEveryMiddleware ==
  request.phase = "done" =>
    /\ \A k \in DOMAIN request.invoked :
         request.invoked[k].kind = "handler" =>
           \A m \in MiddlewareNames :
             \E a \in Positions("middleware", m), b \in Positions("next", m) :
               a < b /\ b < k
    /\ \A i \in DOMAIN httpMiddlewares :
         (/\ Positions("middleware", httpMiddlewares[i].name) # {}
          /\ Positions("next", httpMiddlewares[i].name) = {})
           => /\ HandlersRun = <<>>
              /\ \A j \in DOMAIN httpMiddlewares :
                   j > i => Positions("middleware", httpMiddlewares[j].name) = {}

\* ---------------------------------------------------------------- C22
\* the step makes a new call in slot c: the record changes while no hook of
\* the slot is pending
NewServiceCall(c, op) ==
  /\ serviceCalls[c].pending = {}
  /\ serviceCalls'[c] # serviceCalls[c]
  /\ serviceCalls'[c].op = op

\* the step settles, as rejected, a hook the call in slot c invoked
HookRejects(c, op) ==
  /\ serviceCalls[c].op = op
  /\ serviceCalls[c].pending # {}
  /\ serviceCalls'[c].failed # serviceCalls[c].failed

\* every hook a call has invoked is pending, completed or failed
HooksAccounted(rec) == Range(rec.started) = rec.pending \cup rec.completed \cup rec.failed

C22_Step ==
  /\ \A c \in Slots :
       /\ (NewServiceCall(c, "initialise") /\ ~serviceIsInitialised) =>
            /\ serviceCalls'[c].started = Keys(services)
            /\ serviceCalls'[c].pending = Range(Keys(services))
       /\ HookRejects(c, "initialise") =>
            /\ serviceCalls'[c].pc = "rejected"
            /\ serviceIsInitialised' = serviceIsInitialised
            /\ serviceCalls'[c].started = serviceCalls[c].started
            /\ serviceCalls'[c].pending =
                 serviceCalls[c].pending \ serviceCalls'[c].failed
            /\ serviceCalls'[c].completed = serviceCalls[c].completed
       /\ HooksAccounted(serviceCalls'[c])
  /\ (serviceIsInitialised' /\ ~serviceIsInitialised) =>
       \E c \in Slots :
         /\ serviceCalls'[c].op = "initialise"
         /\ serviceCalls'[c].pc = "resolved"
         /\ serviceCalls'[c].failed = {}
         /\ Range(serviceCalls'[c].started) = serviceCalls'[c].completed

\* C22: ServiceManager.initialise() on a manager that is not initialised
\* invokes the initializer of every registered service before any of them has
\* settled; when an initializer fails the call rejects and does not mark the
\* manager initialised, while the other initializers it invoked stay invoked
\* and pending until they settle by themselves.
C22_InitialisersStartedTogether == [][C22_Step]_vars

\* an initialise() rejected by one service while another, invoked by the same
\* call, is still running
C22_Witness ==
  \E c \in Slots :
    /\ serviceCalls[c].op = "initialise"
    /\ serviceCalls[c].pc = "rejected"
    /\ serviceCalls[c].pending # {}
    /\ ~serviceIsInitialised

\* ---------------------------------------------------------------- C23
C23_Step ==
  \A c \in Slots :
    /\ (NewServiceCall(c, "shutdown") /\ serviceIsInitialised) =>
         /\ serviceCalls'[c].started = Keys(services)
         /\ HooksAccounted(serviceCalls'[c])
    /\ HookRejects(c, "shutdown") =>
         /\ serviceCalls'[c].started = serviceCalls[c].started
         /\ serviceCalls'[c].pending =
              serviceCalls[c].pending \ serviceCalls'[c].failed
    /\ serviceCalls'[c].op = "shutdown" => serviceCalls'[c].pc # "rejected"
    /\ (/\ serviceCalls'[c].op = "shutdown"
        /\ serviceCalls'[c].wasInitialised
        /\ serviceCalls'[c] # serviceCalls[c]
        /\ serviceCalls'[c].pc = "resolved") =>
         /\ ~serviceIsInitialised'
         /\ Range(serviceCalls'[c].started) =
              serviceCalls'[c].completed \cup serviceCalls'[c].failed

\* C23: ServiceManager.shutdown() on an initialised manager invokes the
\* shutdown hook of every registered service; a hook that fails leaves the
\* other hooks invoked and the call unrejected, and when the call resolves
\* every hook has settled and the manager is not initialised.
C23_ShutdownInvokesEveryHook == [][C23_Step]_vars

\* a shutdown() that resolved although one of two hooks failed
C23_Witness ==
  \E c \in Slots :
    /\ serviceCalls[c].op = "shutdown"
    /\ serviceCalls[c].pc = "resolved"
    /\ serviceCalls[c].failed # {}
    /\ serviceCalls[c].completed # {}
    /\ ~serviceIsInitialised

\* ---------------------------------------------------------------- C24
\* the step makes a new start() or stop() call in slot c
NewServerCall(c, op) ==
  /\ ~ServerCallWaiting(c)
  /\ serverCalls'[c] # serverCalls[c] \/ listeners' # listeners
  /\ serverCalls'[c].op = op

\* the server is running, or a start() has not finished binding
Starting == \E l \in DOMAIN listeners : listeners[l] = "binding"

C24_Step ==
  \A c \in Slots :
    /\ (NewServerCall(c, "start") /\ (serverIsRunning \/ Starting)) =>
         /\ serverCalls'[c].pc = "resolved"
         /\ UNCHANGED <<server, serverIsRunning, listeners>>
    /\ (NewServerCall(c, "stop") /\ ~serverIsRunning) =>
         /\ serverCalls'[c].pc = "resolved"
         /\ UNCHANGED <<server, serverIsRunning, listeners>>

\* C24: a start() made while the server is running, or while an earlier
\* start() has not finished binding, returns without error and creates no
\* listener; a stop() made while the server is not running returns without
\* error and changes nothing.
C24_StartStopIdempotent == [][C24_Step]_vars

\* ---------------------------------------------------------------- C25
Settled(rec) == rec.pc \in {"resolved", "rejected"}

\* C25: when the process has exited after a signal, the shutdown hook of every
\* module and service that was initialised has been invoked, and the exit code
\* is 0 when the handler's shutdown() resolved and 1 when it rejected.
C25_SignalRunsShutdown ==
  exitCode # -1 =>
    /\ live = {}
    /\ \E a \in Slots :
         /\ appCalls[a].op = "shutdown"
         /\ appCalls[a].signal
         /\ \/ appCalls[a].pc = "resolved" /\ exitCode = 0
            \/ appCalls[a].pc = "rejected" /\ exitCode = 1

\* ---------------------------------------------------------------- C26
\* C26: for each request the route handler is invoked at most once, whatever
\* the middlewares do with next(), calling it more than once included.
C26_HandlerAtMostOnce ==
  request.phase = "done" => Len(HandlersRun) <= 1

\* ---------------------------------------------------------------- C29
\* the execute() calls of one client, in order
CallsOf(clientId) == SelectSeq(rateLog, LAMBDA e : e.client = clientId)

\* the start of the window the i-th call of the client falls in: the time of
\* the client's first call, and of each first call made after the window before
\* it has elapsed
RECURSIVE WindowStart(_, _)
WindowStart(seq, i) ==
  IF i = 1 THEN seq[1].time
  ELSE LET before == WindowStart(seq, i - 1)
       IN  IF seq[i].time - before > rateOptions.windowMs THEN seq[i].time ELSE before

\* the position of the i-th call among the calls of its window
IndexInWindow(seq, i) ==
  Cardinality({j \in 1..i : WindowStart(seq, j) = WindowStart(seq, i)})

\* C29: of the requests of one client in one window the first options.max
\* reach next(), every further one is answered with 429 and does not reach
\* next(), and the first request after the window has elapsed starts a window
\* with the count at 1.
C29_RateLimited ==
  \A clientId \in Clients :
    LET seq == CallsOf(clientId)
    IN  /\ \A i \in DOMAIN seq :
             seq[i].did = IF IndexInWindow(seq, i) <= rateOptions.max THEN "next" ELSE "429"
        /\ seq # <<>> =>
             /\ rateRequests[clientId].has
             /\ rateRequests[clientId].windowStart = WindowStart(seq, Len(seq))
             /\ rateRequests[clientId].count =
                  Min({IndexInWindow(seq, Len(seq)), rateOptions.max})

\* ---------------------------------------------------------------- C27
\* C27: once an Application.shutdown() call has returned, the shutdown hook of
\* every module and service whose initializer completed has been invoked,
\* also when the initialise() that ran those initializers was rejected.
C27_InitialisedAreShutDown ==
  \A a \in Slots :
    (/\ appCalls[a].op = "shutdown"
     /\ Settled(appCalls[a])
     /\ \A d \in Slots : appCalls[d].op = "initialise" => ~AppWaiting(d))
      => live = {}

\* ---------------------------------------------------------------- C28
\* the step invokes service initializers for the call in slot a
ServiceInitialisersInvoked(a) ==
  /\ serviceCalls'[a].op = "initialise"
  /\ ~(serviceCalls'[a].pending \subseteq serviceCalls[a].pending)

C28_Step ==
  \A a \in Slots :
    /\ (appCalls'[a].op = "initialise" /\ ServiceInitialisersInvoked(a)) =>
         /\ \A m \in EnabledModules : Live("module", m) \in live'
         /\ ~Awaiting(a)'
    /\ (appCalls'[a].op = "shutdown" /\ ModuleHooksInvoked(a, "shutdown") # {}) =>
         /\ serviceCalls'[a].op = "shutdown"
         /\ serviceCalls'[a].pc = "resolved"
         /\ serviceCalls'[a].pending = {}

\* C28: an Application.initialise() call invokes a service initializer only
\* when the initializer of every enabled module has completed and none is
\* pending in the call, and an Application.shutdown() call invokes a module
\* shutdown hook only when every service shutdown hook it invoked has settled.
C28_ModulesBeforeServices == [][C28_Step]_vars

\* a shutdown() that is awaiting a module hook after its service hooks settled
C28_Witness ==
  \E a \in Slots :
    /\ appCalls[a].op = "shutdown"
    /\ appCalls[a].pc = "modules"
    /\ serviceCalls[a].completed # {}
    /\ serviceCalls[a].failed # {}

\* ---------------------------------------------------------------- C30
\* how many times the onceWrapper numbered w has called its listener
TimesInvoked(w) == Cardinality({i \in DOMAIN onceInvoked : onceInvoked[i] = w})

====
